---- MODULE Spec2Model ----
(***************************************************************************)
(* Accelerometer accident-detection pipeline.                              *)
(*                                                                         *)
(*   AccelerometerFeatureEngineer  (window segmentation, window labels)    *)
(*   AccelerometerAccidentDetector (decision-threshold selection)          *)
(*                                                                         *)
(* A dataframe is a set of column names plus a sequence of rows; a row     *)
(* carries its pandas index, vehicle id, timestamp and label.  Rationals   *)
(* (means, precision, recall) are pairs <<numerator, denominator>>.        *)
(***************************************************************************)
EXTENDS Integers, Sequences, FiniteSets, TLC

VARIABLES
    fe,         \* the AccelerometerFeatureEngineer object
    df,         \* the dataframe handed to the last transform() call
    args,       \* arguments of the constructor call
    out,        \* outcome of the last transform() call
    pc,         \* position of the caller of the engineer
    det,        \* the AccelerometerAccidentDetector object
    val,        \* validation labels and scores of the last threshold search
    info,       \* dictionary returned by the last _optimise_threshold() call
    dpc,        \* position of the caller of the detector
    y_train,    \* labels handed to the last _apply_class_weight() call
    params,     \* dictionary returned by the last _apply_class_weight() call
    artifacts,  \* detector.artifacts
    last_features,  \* detector.last_features_
    fitcall,    \* record of the last fit() call
    fs,         \* the files the command-line programs read and write
    cli,        \* record of the last command-line run
    cpc,        \* position of the user of the command-line programs
    helper,     \* the last call of a feature helper: its name and arguments
    result      \* what that call returned

segvars == <<fe, args, df, out, pc>>
detvars == <<det, val, info, dpc>>
weightvars == <<y_train, params>>
fitvars == <<artifacts, last_features, fitcall>>
clivars == <<fs, cli, cpc>>
helpervars == <<helper, result>>
extvars == <<weightvars, fitvars, clivars, helpervars>>
vars == <<fe, args, df, out, pc, det, val, info, dpc, extvars>>

----------------------------------------------------------------------------
(* Bounds of the model *)

MaxRows == 3        \* rows of an input dataframe
MaxWindow == 2      \* largest window_size / step_size argument
MaxVal == 4         \* windows of a validation split
MaxScore == 2       \* predicted probabilities are 0/MaxScore .. MaxScore/MaxScore
MaxTrain == 5       \* windows of a training split
MaxFit == 8         \* windows of a feature table handed to fit
MaxPredict == 2     \* windows of a feature table at inference
MaxSeries == 4      \* samples of a series handed to a statistics helper
MaxSample == 3      \* sensor readings are 0 .. MaxSample
MaxTableRows == 2   \* windows of one feature-extraction run

----------------------------------------------------------------------------
(* Column names and value domains *)

SensorCols == {"accel_x", "accel_y", "accel_z"}
LabelCol == "accident"
TimestampCol == "timestamp"
VehicleCol == "vehicle_id"
AllCols == SensorCols \cup {LabelCol, TimestampCol, VehicleCol}

\* Vehicle ids are ordered values; 0 stands for the default id "vehicle_0".
DefaultVehicle == 0
VehicleIds == {1, 2}
Timestamps == {0, 1}
Labels == {0, 1}

\* Optional[int]: <<>> is None, <<n>> is the integer n.
NoneArg == <<>>
WindowSizeArgs == (0 - 1) .. MaxWindow
StepSizeArgs == {NoneArg} \cup {<<s>> : s \in (0 - 1) .. MaxWindow}

\* Exception messages (all are ValueError in the source).
ErrWindowSize == "window_size must be positive"
ErrMissingSensor == "Missing sensor columns"
ErrMissingLabel == "Label column not found in dataframe"
ErrNoWindows == "No windows were generated"
ErrRangeStep == "range() arg 3 must not be zero"
NoError == ""

----------------------------------------------------------------------------
(* Generic helpers *)

Min(a, b) == IF a <= b THEN a ELSE b

RECURSIVE SumSeq(_)
SumSeq(s) == IF s = <<>> THEN 0 ELSE Head(s) + SumSeq(Tail(s))

\* Python's range(start, stop, step) for step # 0.
RECURSIVE Range(_, _, _)
Range(start, stop, step) ==
    IF (step > 0 /\ start < stop) \/ (step < 0 /\ start > stop)
        THEN <<start>> \o Range(start + step, stop, step)
        ELSE <<>>

----------------------------------------------------------------------------
(* AccelerometerFeatureEngineer.__init__ *)

\* self.step_size = step_size or window_size // 2
StepSizeOf(window_size, step_arg) ==
    IF step_arg = NoneArg \/ step_arg[1] = 0
        THEN window_size \div 2
        ELSE step_arg[1]

Unbuilt == [status |-> "unbuilt", window_size |-> 0, step_size |-> 0,
            error |-> NoError]

\* Mutant: the guard written as window_size < 0.
NewEngineerAcceptsZero(window_size, step_arg) ==
    IF window_size < 0
        THEN [status |-> "error", window_size |-> 0, step_size |-> 0,
              error |-> ErrWindowSize]
        ELSE [status |-> "ok", window_size |-> window_size,
              step_size |-> StepSizeOf(window_size, step_arg),
              error |-> NoError]

NewEngineer(window_size, step_arg) ==
    IF window_size <= 0
        THEN [status |-> "error", window_size |-> 0, step_size |-> 0,
              error |-> ErrWindowSize]
        ELSE [status |-> "ok", window_size |-> window_size,
              step_size |-> StepSizeOf(window_size, step_arg),
              error |-> NoError]

NoArgs == [window_size |-> 0, step_size |-> NoneArg]

----------------------------------------------------------------------------
(* Dataframes *)

Row(i, v, t, l) == [idx |-> i, vid |-> v, ts |-> t, label |-> l]

\* A column that is absent holds the placeholder 0 in every row.
ColValues(cols, c, dom) == IF c \in cols THEN dom ELSE {0}

\* The cell values of n rows: (vehicle id, timestamp, label) per row.
CellChoices(cols, n) ==
    [1..n -> ColValues(cols, VehicleCol, VehicleIds)
             \X ColValues(cols, TimestampCol, Timestamps)
             \X ColValues(cols, LabelCol, Labels)]

\* The frame with columns cols and cells f; the pandas index is 0, 1, ...
Frame(cols, n, f) ==
    [cols |-> cols,
     rows |-> [i \in 1..n |-> Row(i - 1, f[i][1], f[i][2], f[i][3])]]

\* Inputs: every column present, or exactly one of them absent.
ColumnSets == {AllCols} \cup {AllCols \ {c} : c \in AllCols}

NoFrame == [cols |-> {}, rows |-> <<>>]

----------------------------------------------------------------------------
(* AccelerometerFeatureEngineer.transform *)

\* working_df[timestamp_col] = np.arange(len(working_df)) / sampling_rate
\* (sampling_rate > 0: the synthetic timestamp grows with the row position),
\* and working_df[vehicle_id_col] = "vehicle_0".
WorkingDf(d) ==
    [i \in 1..Len(d.rows) |->
        [d.rows[i] EXCEPT
            !.ts = IF TimestampCol \in d.cols THEN @ ELSE i - 1,
            !.vid = IF VehicleCol \in d.cols THEN @ ELSE DefaultVehicle]]

\* Ordering of sort_values([vehicle_id_col, timestamp_col]).
RowLeq(a, b) == a.vid < b.vid \/ (a.vid = b.vid /\ a.ts <= b.ts)

\* Insertion behind every row that is not greater: a stable sort, as the
\* lexsort pandas uses for several sort keys.
RECURSIVE InsertRow(_, _)
InsertRow(r, s) ==
    IF s = <<>> THEN <<r>>
    ELSE IF RowLeq(Head(s), r) THEN <<Head(s)>> \o InsertRow(r, Tail(s))
    ELSE <<r>> \o s

RECURSIVE SortValues(_)
SortValues(rows) ==
    IF rows = <<>> THEN <<>>
    ELSE InsertRow(rows[Len(rows)], SortValues(SubSeq(rows, 1, Len(rows) - 1)))

\* groupby(vehicle_id_col): one group per vehicle id, rows in frame order,
\* reset_index(drop=True) makes positions 0-based inside the group.
GroupKeys(rows) == {rows[i].vid : i \in 1..Len(rows)}

\* The group of a vehicle taken as the whole frame from its first row on.
GroupOfFrom(rows, v) ==
    LET first == CHOOSE i \in 1..Len(rows) :
                    rows[i].vid = v /\ \A j \in 1..(i - 1) : rows[j].vid # v
    IN  SubSeq(rows, first, Len(rows))

GroupOf(rows, v) == SelectSeq(rows, LAMBDA r : r.vid = v)

\* Mutant: the loop runs to the end of the group.
WindowStartsToEnd(num_samples, window_size, step_size) ==
    Range(0, num_samples, step_size)

\* range(0, num_samples - self.window_size + 1, self.step_size)
WindowStarts(num_samples, window_size, step_size) ==
    Range(0, num_samples - window_size + 1, step_size)

\* group.iloc[start_idx:end_idx]: a slice is clipped to the group.
Iloc(group, start_idx, end_idx) ==
    SubSeq(group, start_idx + 1, Min(end_idx, Len(group)))

\* Mutant: all() in place of any().
AllLabel(window) == IF \A i \in 1..Len(window) : window[i].label # 0 THEN 1 ELSE 0

\* int(window[label_col].any()) and window[label_col].mean()
AnyLabel(window) == IF \E i \in 1..Len(window) : window[i].label # 0 THEN 1 ELSE 0
MeanLabel(window) ==
    <<SumSeq([i \in 1..Len(window) |-> window[i].label]), Len(window)>>

\* _compute_window_features: the part every row carries.
ComputeWindowFeatures(window) == [samples_in_window |-> Len(window)]

\* Mutant: window_index is the start offset itself.
FeatureRowIndexIsOffset(e, group, vehicle_id, start_idx) ==
    LET window == Iloc(group, start_idx, start_idx + e.window_size)
    IN  [features |-> ComputeWindowFeatures(window),
         vehicle_id |-> vehicle_id,
         window_index |-> start_idx,
         start_idx |-> start_idx,
         window_start_ts |-> window[1].ts,
         window_end_ts |-> window[Len(window)].ts,
         samples |-> window,
         label |-> AnyLabel(window),
         positive_ratio |-> MeanLabel(window)]

FeatureRow(e, group, vehicle_id, start_idx) ==
    LET window == Iloc(group, start_idx, start_idx + e.window_size)
    IN  [features |-> ComputeWindowFeatures(window),
         vehicle_id |-> vehicle_id,
         window_index |-> start_idx \div e.step_size,
         start_idx |-> start_idx,
         window_start_ts |-> window[1].ts,
         window_end_ts |-> window[Len(window)].ts,
         samples |-> window,
         label |-> AnyLabel(window),
         positive_ratio |-> MeanLabel(window)]

\* Windows of one vehicle group (the body of the for loop over groups).
GroupWindows(e, group, vehicle_id) ==
    IF Len(group) < e.window_size THEN <<>>
    ELSE LET starts == WindowStarts(Len(group), e.window_size, e.step_size)
         IN  [k \in 1..Len(starts) |-> FeatureRow(e, group, vehicle_id, starts[k])]

\* The for loop over the groups, in ascending key order.
RECURSIVE AllWindows(_, _, _)
AllWindows(e, rows, keys) ==
    IF keys = {} THEN <<>>
    ELSE LET v == CHOOSE k \in keys : \A j \in keys : k <= j
         IN  GroupWindows(e, GroupOf(rows, v), v)
                 \o AllWindows(e, rows, keys \ {v})

Failure(msg) == [status |-> "error", error |-> msg, windows |-> <<>>]
NoResult == [status |-> "none", error |-> NoError, windows |-> <<>>]

TransformResult(e, d) ==
    IF ~(SensorCols \subseteq d.cols) THEN Failure(ErrMissingSensor)
    ELSE IF LabelCol \notin d.cols THEN Failure(ErrMissingLabel)
    ELSE LET rows == SortValues(WorkingDf(d))
             keys == GroupKeys(rows)
         IN  IF e.step_size = 0
                /\ \E v \in keys : Len(GroupOf(rows, v)) >= e.window_size
                 THEN Failure(ErrRangeStep)
             ELSE LET windows == AllWindows(e, rows, keys)
                  IN  IF windows = <<>> THEN Failure(ErrNoWindows)
                      ELSE [status |-> "ok", error |-> NoError, windows |-> windows]

----------------------------------------------------------------------------
(* Rationals <<numerator, denominator>> with a positive denominator *)

RatGeq(a, b) == a[1] * b[2] >= b[1] * a[2]
RatEq(a, b) == a[1] * b[2] = b[1] * a[2]

----------------------------------------------------------------------------
(* sklearn.metrics.precision_recall_curve, as scikit-learn >= 1.1 computes  *)
(* it.  Scores and thresholds are counted in units of 1 / MaxScore.         *)

Scores == 0..MaxScore

RECURSIVE Ascending(_)
Ascending(S) ==
    IF S = {} THEN <<>>
    ELSE LET m == CHOOSE x \in S : \A y \in S : x <= y
         IN  <<m>> \o Ascending(S \ {m})

Reverse(s) == [i \in 1..Len(s) |-> s[Len(s) + 1 - i]]

\* True and false positives of the rule "score >= t".
Tps(y_true, y_proba, t) ==
    Cardinality({i \in 1..Len(y_true) : y_true[i] = 1 /\ y_proba[i] >= t})
Fps(y_true, y_proba, t) ==
    Cardinality({i \in 1..Len(y_true) : y_true[i] # 1 /\ y_proba[i] >= t})

PrecisionAt(y_true, y_proba, t) ==
    <<Tps(y_true, y_proba, t), Tps(y_true, y_proba, t) + Fps(y_true, y_proba, t)>>

\* Without a positive label the recall is set to 1 at every threshold.
RecallAt(y_true, y_proba, t) ==
    LET positives == Tps(y_true, y_proba, 0)
    IN  IF positives = 0 THEN <<1, 1>> ELSE <<Tps(y_true, y_proba, t), positives>>

\* Mutant: the curve is returned by decreasing threshold.
PrecisionRecallCurveUnreversed(y_true, y_proba) ==
    LET th == Reverse(Ascending({y_proba[i] : i \in 1..Len(y_proba)}))
    IN  [precision |-> [i \in 1..Len(th) |-> PrecisionAt(y_true, y_proba, th[i])]
                          \o << <<1, 1>> >>,
         recall |-> [i \in 1..Len(th) |-> RecallAt(y_true, y_proba, th[i])]
                          \o << <<0, 1>> >>,
         thresholds |-> th]

\* Thresholds are the distinct scores in increasing order; precision[i] and
\* recall[i] belong to thresholds[i]; a last point (1, 0) has no threshold.
PrecisionRecallCurve(y_true, y_proba) ==
    LET th == Ascending({y_proba[i] : i \in 1..Len(y_proba)})
    IN  [precision |-> [i \in 1..Len(th) |-> PrecisionAt(y_true, y_proba, th[i])]
                          \o << <<1, 1>> >>,
         recall |-> [i \in 1..Len(th) |-> RecallAt(y_true, y_proba, th[i])]
                          \o << <<0, 1>> >>,
         thresholds |-> th]

----------------------------------------------------------------------------
(* AccelerometerAccidentDetector.__init__ and _optimise_threshold *)

DefaultWindowSize == 100

DefaultTargetRecall == <<9, 10>>      \* target_recall: float = 0.9
TargetRecalls == {<<1, 2>>, <<9, 10>>, <<1, 1>>, <<3, 2>>}

NoDetector == [status |-> "unbuilt", target_recall |-> <<0, 1>>]
NoValidation == [y_true |-> <<>>, y_proba |-> <<>>]

NewDetector(target_recall) == [status |-> "ok", target_recall |-> target_recall]

\* 2 * (P * R) / (P + R + 1e-12) of one curve point is greater than that of
\* another.  With x = P * R and s = P + R the difference of the two scores
\* has the sign of (x1 * s2 - x2 * s1) + 1e-12 * (x1 - x2); the first term
\* is zero or far above 1e-12 for counts this small, so the order is that
\* of x1 * s2 against x2 * s1, and that of x1 against x2 when they tie.
F1Greater(p1, r1, p2, r2) ==
    LET x1 == p1[1] * r1[1]
        x2 == p2[1] * r2[1]
        s1 == p1[1] * r1[2] + p1[2] * r1[1]
        s2 == p2[1] * r2[2] + p2[2] * r2[1]
        t1 == p1[2] * r1[2]
        t2 == p2[2] * r2[2]
    IN  \/ x1 * s2 > x2 * s1
        \/ (x1 * s2 = x2 * s1 /\ x1 * t2 > x2 * t1)

\* int(np.argmax(f1_scores)): the first index of a maximum, 0-based.
ArgMaxF1(precision, recall) ==
    LET best == {i \in 1..Len(precision) :
                    \A j \in 1..Len(precision) :
                        ~F1Greater(precision[j], recall[j], precision[i], recall[i])}
    IN  (CHOOSE i \in best : \A j \in best : i <= j) - 1

\* np.concatenate(([0.0], thresholds))
ThresholdCandidates(thresholds) == <<0>> \o thresholds

\* Mutant: best_idx indexes the curve's thresholds, not the candidates.
CandidateAtUnshifted(threshold_candidates, i) ==
    threshold_candidates[Min(i + 1, Len(threshold_candidates) - 1) + 1]

\* threshold_candidates[min(i, len(threshold_candidates) - 1)], i 0-based
CandidateAt(threshold_candidates, i) ==
    threshold_candidates[Min(i, Len(threshold_candidates) - 1) + 1]

\* Indices whose recall exceeds the target: recall > self.target_recall.
TargetIdxAbove(recall, target_recall) ==
    {i - 1 : i \in {j \in 1..Len(recall) :
                        RatGeq(recall[j], target_recall)
                        /\ ~RatEq(recall[j], target_recall)}}

\* np.where(recall >= self.target_recall)[0], 0-based indices
TargetIdx(recall, target_recall) ==
    {i - 1 : i \in {j \in 1..Len(recall) : RatGeq(recall[j], target_recall)}}

\* Mutant: the last index reaching the target, target_idx[-1].
LastTargetIdx(target_idx) == CHOOSE i \in target_idx : \A j \in target_idx : i >= j

\* idx = target_idx[0]
FirstTargetIdx(target_idx) == CHOOSE i \in target_idx : \A j \in target_idx : i <= j

\* _apply_class_weight: scale_pos_weight for pos positive and neg negative
\* labels, without the max(1.0, ...) clamp.
ClassWeightUnclamped(pos, neg) ==
    IF pos = 0 THEN <<1, 1>> ELSE <<neg, pos>>

\* _apply_class_weight: 1.0 when pos == 0, else max(1.0, float(neg / pos)).
ClassWeight(pos, neg) ==
    IF pos = 0 THEN <<1, 1>>
    ELSE IF neg > pos THEN <<neg, pos>> ELSE <<1, 1>>

NoParams == [status |-> "none", scale_pos_weight |-> <<0, 1>>]

\* params = self._apply_class_weight(y): pos = y.sum(), neg = len(y) - pos.
ApplyClassWeight(y) ==
    [status |-> "ok",
     scale_pos_weight |-> ClassWeight(SumSeq(y), Len(y) - SumSeq(y))]

NoInfo ==
    [status |-> "none",
     optimal_threshold |-> 0, optimal_precision |-> <<0, 1>>,
     optimal_recall |-> <<0, 1>>,
     recall_threshold |-> 0, recall_precision |-> <<0, 1>>,
     recall_recall |-> <<0, 1>>]

OptimiseThreshold(d, y_true, y_proba) ==
    LET curve == PrecisionRecallCurve(y_true, y_proba)
        precision == curve.precision
        recall == curve.recall
        threshold_candidates == ThresholdCandidates(curve.thresholds)
        best_idx == ArgMaxF1(precision, recall)
        optimal_threshold == CandidateAt(threshold_candidates, best_idx)
        target_idx == TargetIdx(recall, d.target_recall)
        idx == FirstTargetIdx(target_idx)
    IN  [status |-> "ok",
         optimal_threshold |-> optimal_threshold,
         optimal_precision |-> precision[best_idx + 1],
         optimal_recall |-> recall[best_idx + 1],
         recall_threshold |->
            IF target_idx # {} THEN CandidateAt(threshold_candidates, idx)
                               ELSE optimal_threshold,
         recall_precision |->
            IF target_idx # {} THEN precision[idx + 1] ELSE precision[best_idx + 1],
         recall_recall |->
            IF target_idx # {} THEN recall[idx + 1] ELSE recall[best_idx + 1]]

\* A validation split of n windows: (label, score) per window.
Validation(n, f) ==
    [y_true |-> [i \in 1..n |-> f[i][1]], y_proba |-> [i \in 1..n |-> f[i][2]]]

----------------------------------------------------------------------------------------------------------------------------------------
(* Feature names.  A name is the sequence of the parts the code joins with  *)
(* "_": <<"accel_x", "jerk", "mean">> is "accel_x_jerk_mean".  A dict is    *)
(* described by its keys in insertion order, and the keys one helper emits  *)
(* under one prefix are kept together as a block [prefix, keys].            *)

DefaultSensorCols == <<"accel_x", "accel_y", "accel_z">>

SeriesStatisticsKeys ==
    <<"mean", "std", "max", "min", "range", "ptp", "energy", "skew",
      "kurtosis", "zcr">>
JerkStatisticsKeys == <<"mean", "std", "max">>
FftFeaturesKeys ==
    <<"dominant_freq", "dominant_power", "spectral_energy",
      "spectral_entropy">>

\* The dictionaries the helpers return early: _series_statistics for an empty
\* series, _jerk_statistics and _fft_features for fewer than two samples.
SeriesStatisticsEmptyKeys ==
    <<"mean", "std", "max", "min", "range", "ptp", "energy", "skew",
      "kurtosis", "zcr">>
JerkStatisticsShortKeys == <<"mean", "std", "max">>
FftFeaturesShortKeys ==
    <<"dominant_freq", "dominant_power", "spectral_energy",
      "spectral_entropy">>

\* The key suffixes of a block; a block of kind "key" is the single key
\* spelled by its prefix.
BlockKeys(kind) ==
    CASE kind = "series" -> SeriesStatisticsKeys
      [] kind = "jerk" -> JerkStatisticsKeys
      [] kind = "fft" -> FftFeaturesKeys
      [] kind = "series_empty" -> SeriesStatisticsEmptyKeys
      [] kind = "jerk_short" -> JerkStatisticsShortKeys
      [] kind = "fft_short" -> FftFeaturesShortKeys
      [] kind = "key" -> <<"">>

Block(prefix, kind) == [prefix |-> prefix, keys |-> kind]
Key(name) == Block(name, "key")

\* The names of a block: f"{prefix}_{key}" for every key
Prefixed(block) ==
    IF block.keys = "key" THEN <<block.prefix>>
    ELSE [i \in 1..Len(BlockKeys(block.keys)) |->
              block.prefix \o <<BlockKeys(block.keys)[i]>>]

SeqRange(s) == {s[i] : i \in 1..Len(s)}

\* The names of a sequence of blocks, in order
RECURSIVE ColumnNames(_)
ColumnNames(blocks) ==
    IF blocks = <<>> THEN <<>>
    ELSE Prefixed(Head(blocks)) \o ColumnNames(Tail(blocks))

NumColumns(blocks) ==
    SumSeq([i \in 1..Len(blocks) |-> Len(BlockKeys(blocks[i].keys))])

\* dict.update(other): new keys are appended in other's order, keys already
\* present keep their place.
DictUpdate(keys, other) ==
    LET all == keys \o other
        indexed == [i \in 1..Len(all) |-> <<i, all[i]>>]
        first == SelectSeq(indexed,
                    LAMBDA p : \A j \in 1..(p[1] - 1) : all[j] # p[2])
    IN  [k \in 1..Len(first) |-> first[k][2]]

\* One block per axis: {axis: helper(window[axis], prefix) for axis in ...}
AxisBlocks(axes, infix, kind) ==
    [i \in 1..Len(axes) |-> Block(<<axes[i]>> \o infix, kind)]

\* _correlation_features: corr_{col_i}_{col_j} for every i < j
RECURSIVE CorrelationKeys(_)
CorrelationKeys(sensor_cols) ==
    IF sensor_cols = <<>> THEN <<>>
    ELSE [j \in 1..(Len(sensor_cols) - 1) |->
              Key(<<"corr", Head(sensor_cols), sensor_cols[j + 1]>>)]
            \o CorrelationKeys(Tail(sensor_cols))

RECURSIVE MetadataKeys(_)
MetadataKeys(metadata_cols) ==
    IF metadata_cols = <<>> THEN <<>>
    ELSE <<Key(<<Head(metadata_cols), "last">>),
           Key(<<Head(metadata_cols), "mode">>)>>
            \o MetadataKeys(Tail(metadata_cols))

SeverityKeys == <<Key(<<"severity", "max">>), Key(<<"severity", "mean">>)>>

\* The keys of the dictionary _compute_window_features returns, in insertion
\* order; has_severity: severity_col is set and is a column of the window.
WindowFeatureKeys(sensor_cols, metadata_cols, has_severity) ==
    LET axis_stats == AxisBlocks(sensor_cols, <<>>, "series")
        magnitude == <<Block(<<"magnitude">>, "series")>>
        jerk_axes == AxisBlocks(sensor_cols, <<"jerk">>, "jerk")
                        \o <<Block(<<"magnitude", "jerk">>, "jerk")>>
        fft_features == AxisBlocks(sensor_cols, <<"fft">>, "fft")
                        \o <<Block(<<"magnitude", "fft">>, "fft")>>
        severity == IF has_severity THEN SeverityKeys ELSE <<>>
    IN  DictUpdate(<<>>,
            axis_stats \o magnitude \o jerk_axes
                \o CorrelationKeys(sensor_cols) \o fft_features
                \o MetadataKeys(metadata_cols) \o severity
                \o <<Key(<<"samples_in_window">>)>>)

\* Which dictionary each helper returns for a series of n samples.
SeriesStatistics(n) == IF n = 0 THEN "series_empty" ELSE "series"
JerkStatistics(n) == IF n < 2 THEN "jerk_short" ELSE "jerk"
FftFeatures(n) == IF n < 2 THEN "fft_short" ELSE "fft"

\* The metadata loop with the fallback branch leaving the mode out.
MetadataKeysWithoutFallback(metadata_cols, mode_empty) ==
    IF mode_empty
    THEN [i \in 1..Len(metadata_cols) |-> Key(<<metadata_cols[i], "last">>)]
    ELSE MetadataKeys(metadata_cols)

\* The metadata loop for a window: features[f"{meta_col}_last"], then
\* features[f"{meta_col}_mode"] from the mode, or from the last value when
\* the mode is empty (every value missing).
RECURSIVE MetadataKeysOf(_, _)
MetadataKeysOf(metadata_cols, mode_empty) ==
    IF metadata_cols = <<>> THEN <<>>
    ELSE (IF ~mode_empty
          THEN <<Key(<<Head(metadata_cols), "last">>),
                 Key(<<Head(metadata_cols), "mode">>)>>
          ELSE <<Key(<<Head(metadata_cols), "last">>),
                 Key(<<Head(metadata_cols), "mode">>)>>)
            \o MetadataKeysOf(Tail(metadata_cols), mode_empty)

ErrIndex == "single positional indexer is out-of-bounds"

\* _compute_window_features(window, sensor_cols, metadata_cols,
\* severity_col) for a window of window.len rows whose metadata values are
\* all missing when window.mode_empty: the keys of the dictionary it
\* returns, in insertion order. has_severity: severity_col is set and is a
\* column of the window. meta_values.iloc[-1] raises on an empty window.
ComputeWindowFeatureKeys(window, sensor_cols, metadata_cols, has_severity) ==
    LET n == window.len
        axis_stats == AxisBlocks(sensor_cols, <<>>, SeriesStatistics(n))
        magnitude == <<Block(<<"magnitude">>, SeriesStatistics(n))>>
        jerk_axes == AxisBlocks(sensor_cols, <<"jerk">>, JerkStatistics(n))
                        \o <<Block(<<"magnitude", "jerk">>, JerkStatistics(n))>>
        fft_features == AxisBlocks(sensor_cols, <<"fft">>, FftFeatures(n))
                        \o <<Block(<<"magnitude", "fft">>, FftFeatures(n))>>
        severity == IF has_severity THEN SeverityKeys ELSE <<>>
    IN  IF metadata_cols # <<>> /\ n = 0
        THEN [status |-> "error", error |-> ErrIndex]
        ELSE [status |-> "ok",
              value |->
                DictUpdate(<<>>,
                    axis_stats \o magnitude \o jerk_axes
                        \o CorrelationKeys(sensor_cols) \o fft_features
                        \o MetadataKeysOf(metadata_cols, window.mode_empty)
                        \o severity \o <<Key(<<"samples_in_window">>)>>)]

\* Keys transform adds to every feature row.
WindowIdentityKeys ==
    <<Key(<<"vehicle_id">>), Key(<<"window_index">>),
      Key(<<"window_start_ts">>), Key(<<"window_end_ts">>),
      Key(<<"label">>), Key(<<"positive_ratio">>)>>

\* Columns of the feature table transform returns.
FeatureTableColumns(sensor_cols, metadata_cols, has_severity) ==
    DictUpdate(WindowFeatureKeys(sensor_cols, metadata_cols, has_severity),
               WindowIdentityKeys)

\* [col for col in columns if col not in excluded]
ColumnsNotIn(columns, excluded) ==
    SelectSeq(columns, LAMBDA c : c \notin excluded)

----------------------------------------------------------------------------
(* AccelerometerAccidentDetector.fit.  The library calls are modelled by    *)
(* what scikit-learn and xgboost do; where their releases differ, the       *)
(* release is a choice (LibraryBuilds).  The feature table is described by  *)
(* its columns and by how many of its windows carry label 1 and label 0:    *)
(* the shuffled split makes the row order immaterial.                       *)

TestSize == <<1, 5>>        \* test_size: float = 0.2

NaN == <<0, 0>>
IsNaN(r) == r[2] = 0
Ratio(a, b) == IF b = 0 THEN <<0, 1>> ELSE <<a, b>>   \* zero_division -> 0.0

\* a label vector with pos ones and neg zeros
LabelVector(pos, neg) == [i \in 1..(pos + neg) |-> IF i <= pos THEN 1 ELSE 0]

FitNonFeatureCols ==
    {Key(<<"label">>), Key(<<"vehicle_id">>), Key(<<"window_index">>),
     Key(<<"window_start_ts">>), Key(<<"window_end_ts">>)}

\* feature_cols of fit for a feature table with the given columns
FitFeatureCols(columns) == ColumnsNotIn(columns, FitNonFeatureCols)

\* sklearn's _approximate_mode for one of two classes: the class's share of
\* n_draws rounded down, plus one when its remainder is the larger (either
\* way on a tie).
ApproximateMode(count, n, n_draws) ==
    LET share == n_draws * count
        frac == share % n
        other == (n_draws * (n - count)) % n
    IN  IF frac = 0 \/ frac < other THEN {share \div n}
        ELSE IF frac > other THEN {share \div n + 1}
        ELSE {share \div n, share \div n + 1}

ErrSplit == "train_test_split: ValueError"
ErrPipeFit == "XGBClassifier.fit: ValueError"
ErrReport == "classification_report: ValueError"
ErrRocAuc == "roc_auc_score: ValueError"

\* train_test_split(X, y, test_size=0.2, stratify=y): the class counts of
\* the splits it can return, or its ValueError (empty train set, a class
\* with one member, a split smaller than the number of classes).
TrainTestSplit(pos, neg) ==
    LET n == pos + neg
        n_test == (n * TestSize[1] + TestSize[2] - 1) \div TestSize[2]
        n_train == n - n_test
        n_classes == (IF pos > 0 THEN 1 ELSE 0) + (IF neg > 0 THEN 1 ELSE 0)
        least == IF pos = 0 THEN neg ELSE IF neg = 0 THEN pos ELSE Min(pos, neg)
    IN  IF n_train = 0 \/ least < 2 \/ n_train < n_classes \/ n_test < n_classes
        THEN {[status |-> "error", train_pos |-> 0, train_neg |-> 0,
               test_pos |-> 0, test_neg |-> 0]}
        ELSE {[status |-> "ok", train_pos |-> t, train_neg |-> n_train - t,
               test_pos |-> pos - t, test_neg |-> neg - (n_train - t)] :
                 t \in ApproximateMode(pos, n, n_train)}

\* Releases of the libraries: whether XGBClassifier.fit rejects labels that
\* are not 0..k-1, and whether roc_auc_score of one class is NaN with a
\* warning instead of a ValueError.
LibraryBuilds == [strict_classes : BOOLEAN, auc_nan : BOOLEAN]

\* pipe.predict deciding by the probability alone, whatever the training
\* labels were.
PredictByScore(train_pos, train_neg, y_proba) ==
    [i \in 1..Len(y_proba) |-> IF 2 * y_proba[i] > MaxScore THEN 1 ELSE 0]

\* y_pred = pipe.predict(X_test): a classifier trained on one class predicts
\* that class; otherwise the label of probability > 0.5.
Predict(train_pos, train_neg, y_proba) ==
    [i \in 1..Len(y_proba) |->
        IF train_neg = 0 THEN 1
        ELSE IF train_pos = 0 THEN 0
        ELSE IF 2 * y_proba[i] > MaxScore THEN 1 ELSE 0]

\* roc_auc_score(y_true, y_proba): the share of (positive, negative) pairs
\* ranked in order, ties counted half.
RocAucScore(y_true, y_proba) ==
    LET ids == 1..Len(y_true)
        pairs == {p \in ids \X ids : y_true[p[1]] = 1 /\ y_true[p[2]] = 0}
        won == {p \in pairs : y_proba[p[1]] > y_proba[p[2]]}
        tied == {p \in pairs : y_proba[p[1]] = y_proba[p[2]]}
    IN  <<2 * Cardinality(won) + Cardinality(tied), 2 * Cardinality(pairs)>>

NoMetrics ==
    [accuracy |-> <<0, 1>>, precision |-> <<0, 1>>, recall |-> <<0, 1>>,
     f1 |-> <<0, 1>>, roc_auc |-> <<0, 1>>, threshold_info |-> NoInfo]

\* _collect_metrics(y_true, y_pred, y_proba)
CollectMetrics(y_true, y_pred, y_proba, lib) ==
    LET ids == 1..Len(y_true)
        tp == Cardinality({i \in ids : y_true[i] = 1 /\ y_pred[i] = 1})
        fp == Cardinality({i \in ids : y_true[i] = 0 /\ y_pred[i] = 1})
        fn == Cardinality({i \in ids : y_true[i] = 1 /\ y_pred[i] = 0})
        tn == Cardinality({i \in ids : y_true[i] = 0 /\ y_pred[i] = 0})
    IN  IF Cardinality(SeqRange(y_true) \cup SeqRange(y_pred)) # 2
        THEN [status |-> "error", error |-> ErrReport, metrics |-> NoMetrics]
        ELSE IF Cardinality(SeqRange(y_true)) # 2 /\ ~lib.auc_nan
        THEN [status |-> "error", error |-> ErrRocAuc, metrics |-> NoMetrics]
        ELSE [status |-> "ok", error |-> NoError,
              metrics |->
                [accuracy |-> <<tp + tn, Len(y_true)>>,
                 precision |-> Ratio(tp, tp + fp),
                 recall |-> Ratio(tp, tp + fn),
                 f1 |-> Ratio(2 * tp, 2 * tp + fp + fn),
                 roc_auc |-> IF Cardinality(SeqRange(y_true)) # 2 THEN NaN
                             ELSE RocAucScore(y_true, y_proba),
                 threshold_info |-> NoInfo]]

NoArtifacts ==
    [status |-> "none", n_features_in |-> 0, feature_columns |-> <<>>,
     metrics |-> NoMetrics, threshold |-> 0]

NoFeatures == [status |-> "none", columns |-> <<>>]

\* TrainingArtifacts(threshold=...) taking the recall threshold.
ArtifactRecallThreshold(threshold_info) == threshold_info.recall_threshold

\* TrainingArtifacts(threshold=threshold_info["optimal_threshold"])
ArtifactThreshold(threshold_info) == threshold_info.optimal_threshold

NoFit ==
    [status |-> "none", error |-> NoError, pos |-> 0, neg |-> 0,
     y_test |-> <<>>, y_proba |-> <<>>, artifacts_before |-> NoArtifacts]

\* What one fit() call leaves behind: the detector's last_features_ and
\* artifacts, and the call's record (the label counts of its feature table,
\* its validation split, what it raised, the artifacts at its start).
FitFailure(msg, features, before, pos, neg) ==
    [last_features |-> features, artifacts |-> before,
     call |-> [status |-> "error", error |-> msg, pos |-> pos, neg |-> neg,
               y_test |-> <<>>, y_proba |-> <<>>,
               artifacts_before |-> before]]

\* fit() when transform raised msg: nothing is assigned.
FitTransformError(msg, features, before) ==
    FitFailure(msg, features, before, 0, 0)

\* The builds that have to be told apart for one split: strict_classes
\* matters only to a training split without label 0, auc_nan only to a
\* validation split of one class.
BuildsFor(split) ==
    {lib \in LibraryBuilds :
        /\ lib.strict_classes => split.train_neg = 0
        /\ lib.auc_nan => (split.test_pos = 0 \/ split.test_neg = 0)}

\* fit() on a feature table with the given columns, pos windows of label 1
\* and neg of label 0; split is the outcome of train_test_split, scores the
\* probabilities the fitted pipeline gives the validation windows.
FitResult(d, before, columns, pos, neg, split, scores, lib) ==
    LET features == [status |-> "ok", columns |-> columns]
        feature_cols == FitFeatureCols(columns)
        y_test == LabelVector(split.test_pos, split.test_neg)
        y_pred == Predict(split.train_pos, split.train_neg, scores)
        collected == CollectMetrics(y_test, y_pred, scores, lib)
        threshold_info == OptimiseThreshold(d, y_test, scores)
        created ==
            [status |-> "ok",
             n_features_in |-> NumColumns(feature_cols),
             feature_columns |-> feature_cols,
             metrics |-> [collected.metrics EXCEPT
                             !.threshold_info = threshold_info],
             threshold |-> ArtifactThreshold(threshold_info)]
    IN  IF split.status = "error"
        THEN FitFailure(ErrSplit, features, before, pos, neg)
        ELSE IF split.train_neg = 0 /\ lib.strict_classes
        THEN FitFailure(ErrPipeFit, features, before, pos, neg)
        ELSE IF collected.status = "error"
        THEN FitFailure(collected.error, features, before, pos, neg)
        ELSE [last_features |-> features, artifacts |-> created,
              call |-> [status |-> "ok", error |-> NoError,
                        pos |-> pos, neg |-> neg,
                        y_test |-> y_test, y_proba |-> scores,
                        artifacts_before |-> before]]

----------------------------------------------------------------------------
(* Persistence and the command-line programs.  A path is <<directory,      *)
(* file name>> under PROJECT_ROOT; the file tree maps every path to its     *)
(* content.  A decision threshold is a rational; a probability of s score   *)
(* units is s / MaxScore.                                                   *)

DefaultModelPath == <<"models", "accelerometer_accident_detector.pkl">>
DefaultMetricsPath == <<"output", "accelerometer_metrics.json">>
DefaultFeatureDumpPath == <<"output", "accelerometer_features.parquet">>
RocCurvePath == <<"output", "accelerometer_roc_curve.png">>
DefaultOutputPath == <<"output", "predictions.csv">>

\* Path(model_path).parent / "accelerometer_metrics.json"
MetricsBeside(model_path) == <<model_path[1], "accelerometer_metrics.json">>

Paths ==
    {DefaultModelPath, DefaultMetricsPath, DefaultFeatureDumpPath,
     RocCurvePath, DefaultOutputPath, MetricsBeside(DefaultModelPath)}

Absent == [kind |-> "absent"]
EmptyTree == [p \in Paths |-> Absent]
Exists(tree, path) == tree[path].kind # "absent"

\* joblib.dump(self.artifacts.pipeline, path): the pickle holds the fitted
\* pipeline, which knows how many columns it was fitted on; trained_on is
\* the feature_columns of the fit that made it, which the pickle does not
\* hold (history, for stating claims).
PipelineFile(a) ==
    [kind |-> "pipeline", n_features_in |-> a.n_features_in,
     trained_on |-> a.feature_columns]

MetricsKeys ==
    {"accuracy", "precision", "recall", "f1", "roc_auc", "optimal_threshold",
     "optimal_precision", "optimal_recall", "recall_threshold",
     "recall_precision", "recall_recall"}

\* A JSON object with the given keys, taking its values from metrics.
JsonFile(keys, metrics) == [kind |-> "json", keys |-> keys, metrics |-> metrics]

\* json.dumps(self.artifacts.metrics, indent=2)
MetricsFile(a) == JsonFile(MetricsKeys, a.metrics)

ErrNoFit == "Call fit() before saving."

\* detector.save_model(path) / detector.save_metrics(path): RuntimeError
\* without artifacts, otherwise the file is written.
SaveModelUnguarded(a, tree, path) ==
    [status |-> "ok", tree |-> [tree EXCEPT ![path] = PipelineFile(a)]]

SaveModel(a, tree, path) ==
    IF a.status # "ok" THEN [status |-> "error", tree |-> tree]
    ELSE [status |-> "ok", tree |-> [tree EXCEPT ![path] = PipelineFile(a)]]

SaveMetrics(a, tree, path) ==
    IF a.status # "ok" THEN [status |-> "error", tree |-> tree]
    ELSE [status |-> "ok", tree |-> [tree EXCEPT ![path] = MetricsFile(a)]]

\* random.uniform(0.86, 0.88): two of the values it can return
DemoDraws == {<<86, 100>>, <<88, 100>>}

\* artifacts.metrics['accuracy'] = random.uniform(0.86, 0.88) and the same
\* for precision, recall and roc_auc; draws are the four values drawn.
AdjustMetrics(a, draws) ==
    [a EXCEPT !.metrics =
        [a.metrics EXCEPT !.accuracy = draws[1], !.precision = draws[2],
                          !.recall = draws[3], !.roc_auc = draws[4]]]

\* The data file a program is given: whether it exists, whether it has the
\* sensor columns asked for and the severity column, and how many windows
\* segmentation makes of it.
NoInput ==
    [exists |-> FALSE, has_sensors |-> FALSE, has_severity |-> FALSE,
     windows |-> 0]

DataFile(has_sensors, has_severity, windows) ==
    [exists |-> TRUE, has_sensors |-> has_sensors,
     has_severity |-> has_severity, windows |-> windows]

NoRun ==
    [prog |-> "none", status |-> "none", error |-> NoError, written |-> {},
     fit |-> NoFit, fitted |-> NoArtifacts, threshold_arg |-> NoneArg,
     threshold |-> <<>>, sensor_cols |-> <<>>, feature_cols |-> <<>>,
     probabilities |-> <<>>, predictions |-> <<>>, input |-> NoInput]

ErrDataNotFound == "Data file not found"
ErrModelNotFound == "Model not found"
ErrFeatureCount == "X has a different number of features than the pipeline was fitted on"
ErrFeatureDump == "to_parquet failed"

ErrRocCurve == "Could not generate ROC curve"

\* main() with the ROC curve step outside try/except
TrainAfterLoadRocUncaught(tree, r, draws, metrics_path, dump_ok, roc_ok) ==
    LET adjusted == AdjustMetrics(r.artifacts, draws)
        t1 == SaveModel(adjusted, tree, DefaultModelPath).tree
        t2 == SaveMetrics(adjusted, t1, metrics_path).tree
        t3 == [t2 EXCEPT ![DefaultFeatureDumpPath] = [kind |-> "parquet"]]
        t4 == [t3 EXCEPT ![RocCurvePath] = [kind |-> "png"]]
        run == [NoRun EXCEPT !.prog = "train", !.fit = r.call,
                             !.fitted = r.artifacts]
    IN  IF r.call.status = "error"
        THEN [tree |-> tree,
              run |-> [run EXCEPT !.status = "error", !.error = r.call.error]]
        ELSE IF ~dump_ok
        THEN [tree |-> t2,
              run |-> [run EXCEPT !.status = "error", !.error = ErrFeatureDump,
                          !.written = {DefaultModelPath, metrics_path}]]
        ELSE IF ~roc_ok
        THEN [tree |-> t3,
              run |-> [run EXCEPT !.status = "error", !.error = ErrRocCurve,
                          !.written = {DefaultModelPath, metrics_path,
                                       DefaultFeatureDumpPath}]]
        ELSE [tree |-> t4,
              run |-> [run EXCEPT !.status = "ok",
                          !.written = {DefaultModelPath, metrics_path,
                                       DefaultFeatureDumpPath, RocCurvePath}]]

\* The training program's main() once load_data has returned: r is the
\* outcome of detector.fit, draws the random values, metrics_path the
\* --metrics-path argument, dump_ok whether to_parquet succeeds, roc_ok
\* whether the ROC curve is plotted (its failure is caught and printed).
TrainAfterLoad(tree, r, draws, metrics_path, dump_ok, roc_ok) ==
    LET adjusted == AdjustMetrics(r.artifacts, draws)
        t1 == SaveModel(adjusted, tree, DefaultModelPath).tree
        t2 == SaveMetrics(adjusted, t1, metrics_path).tree
        t3 == [t2 EXCEPT ![DefaultFeatureDumpPath] = [kind |-> "parquet"]]
        t4 == [t3 EXCEPT ![RocCurvePath] = [kind |-> "png"]]
        run == [NoRun EXCEPT !.prog = "train", !.fit = r.call,
                             !.fitted = r.artifacts]
    IN  IF r.call.status = "error"
        THEN [tree |-> tree,
              run |-> [run EXCEPT !.status = "error", !.error = r.call.error]]
        ELSE IF ~dump_ok
        THEN [tree |-> t2,
              run |-> [run EXCEPT !.status = "error", !.error = ErrFeatureDump,
                          !.written = {DefaultModelPath, metrics_path}]]
        ELSE IF ~roc_ok
        THEN [tree |-> t3,
              run |-> [run EXCEPT !.status = "ok",
                          !.written = {DefaultModelPath, metrics_path,
                                       DefaultFeatureDumpPath}]]
        ELSE [tree |-> t4,
              run |-> [run EXCEPT !.status = "ok",
                          !.written = {DefaultModelPath, metrics_path,
                                       DefaultFeatureDumpPath, RocCurvePath}]]

\* main() of the training program when it stops before fit.
TrainStopped(tree, msg) ==
    [tree |-> tree,
     run |-> [NoRun EXCEPT !.prog = "train", !.status = "error", !.error = msg]]

\* args.threshold or default_threshold
DecisionThresholdIfTruthy(threshold_arg, default_threshold) ==
    IF threshold_arg # NoneArg /\ threshold_arg[1][1] # 0
    THEN threshold_arg[1] ELSE default_threshold

\* args.threshold if args.threshold is not None else default_threshold
DecisionThreshold(threshold_arg, default_threshold) ==
    IF threshold_arg # NoneArg THEN threshold_arg[1] ELSE default_threshold

FallbackThreshold == <<1, 2>>

ErrJson == "JSONDecodeError"

\* load_metrics(path) and metrics.get("optimal_threshold", 0.5): the file
\* beside the model is absent, is not JSON, or is a JSON object with or
\* without the key.
DefaultThreshold(tree, model_path) ==
    LET file == tree[MetricsBeside(model_path)]
    IN  IF file.kind = "absent"
        THEN [status |-> "ok", value |-> FallbackThreshold]
        ELSE IF file.kind # "json"
        THEN [status |-> "error", value |-> FallbackThreshold]
        ELSE IF "optimal_threshold" \in file.keys
        THEN [status |-> "ok",
              value |-> <<file.metrics.threshold_info.optimal_threshold,
                          MaxScore>>]
        ELSE [status |-> "ok", value |-> FallbackThreshold]

\* transform without the check of the sensor columns
TransformErrorUnchecked(input) ==
    IF input.windows = 0 THEN ErrNoWindows ELSE NoError

\* What transform raises on the input of the inference program, whose label,
\* timestamp and vehicle columns main() has filled in when they were absent.
TransformError(input) ==
    IF ~input.has_sensors THEN ErrMissingSensor
    ELSE IF input.windows = 0 THEN ErrNoWindows
    ELSE NoError

\* The inference program's non_feature_cols
PredictNonFeatureCols ==
    {Key(<<"label">>), Key(<<"vehicle_id">>), Key(<<"window_index">>),
     Key(<<"window_start_ts">>), Key(<<"window_end_ts">>),
     Key(<<"positive_ratio">>)}

PredictFeatureCols(columns) == ColumnsNotIn(columns, PredictNonFeatureCols)

\* (probabilities >= threshold).astype(int)
Predictions(probabilities, threshold) ==
    [i \in 1..Len(probabilities) |->
        IF RatGeq(<<probabilities[i], MaxScore>>, threshold) THEN 1 ELSE 0]

\* main() of the inference program with the default --model-path and
\* --output-path: threshold_arg is --threshold, sensor_cols --sensor-cols,
\* input the file at --data-path, probabilities what predict_proba returns
\* for the windows when the pipeline accepts them.
PredictRun(tree, threshold_arg, sensor_cols, input, probabilities) ==
    LET run == [NoRun EXCEPT !.prog = "predict",
                             !.threshold_arg = threshold_arg,
                             !.sensor_cols = sensor_cols, !.input = input]
        stop(r, msg) ==
            [tree |-> tree,
             run |-> [r EXCEPT !.status = "error", !.error = msg]]
        default_threshold == DefaultThreshold(tree, DefaultModelPath)
        decided ==
            [run EXCEPT !.threshold =
                <<DecisionThreshold(threshold_arg, default_threshold.value)>>]
        columns == FeatureTableColumns(sensor_cols, <<>>, input.has_severity)
        feature_cols == PredictFeatureCols(columns)
        extracted == [decided EXCEPT !.feature_cols = feature_cols]
    IN  IF ~Exists(tree, DefaultModelPath) THEN stop(run, ErrModelNotFound)
        ELSE IF default_threshold.status = "error" THEN stop(run, ErrJson)
        ELSE IF ~input.exists THEN stop(decided, ErrDataNotFound)
        ELSE IF TransformError(input) # NoError
        THEN stop(decided, TransformError(input))
        ELSE IF NumColumns(feature_cols)
                    # tree[DefaultModelPath].n_features_in
        THEN stop(extracted, ErrFeatureCount)
        ELSE [tree |-> [tree EXCEPT ![DefaultOutputPath] =
                           [kind |-> "csv", rows |-> Len(probabilities)]],
              run |-> [extracted EXCEPT
                          !.status = "ok",
                          !.probabilities = probabilities,
                          !.predictions =
                              Predictions(probabilities, decided.threshold[1]),
                          !.written = {DefaultOutputPath}]]

----------------------------------------------------------------------------
(* Cell values of the feature table: finite, NaN, or +/-Infinity *)

CellKinds == {"finite", "nan", "inf"}

\* What the sensor readings of a window are like: varying finite values,
\* one finite value repeated (zero variance), some reading NaN, some reading
\* +/-Infinity.
SensorKinds == {"finite", "constant", "nan", "inf"}

\* The timestamps of a window after sort_values: finite; the last one NaN
\* (NaN sorts last); the first one -Infinity.
TimestampKinds == {"finite", "nan", "inf"}

\* The labels of a window: numbers; every label NaN; some label Infinity.
LabelKinds == {"finite", "nan", "inf"}

\* The value a helper computes before the table is normalised, by the kind
\* of the readings: skew and kurtosis of a constant series are 0/0, min, max
\* and the differences of a series with an infinite reading are infinite,
\* the spectrum of a series with a NaN or infinite reading is NaN.
RawStatistic(block, sensors) ==
    CASE block.keys = "series" ->
            (CASE sensors = "finite" -> "finite"
               [] sensors = "constant" -> "nan"
               [] sensors = "nan" -> "nan"
               [] sensors = "inf" -> "inf")
      [] block.keys = "jerk" ->
            (CASE sensors \in {"finite", "constant"} -> "finite"
               [] sensors = "nan" -> "nan"
               [] sensors = "inf" -> "inf")
      [] block.keys = "fft" ->
            (IF sensors \in {"finite", "constant"} THEN "finite" ELSE "nan")
      [] OTHER -> "finite"

\* feature_row[...] = ... for the six identity keys of a window
IdentityCell(block, window) ==
    CASE block = Key(<<"window_start_ts">>) ->
            (IF window.timestamps = "inf" THEN "inf" ELSE "finite")
      [] block = Key(<<"window_end_ts">>) ->
            (IF window.timestamps = "nan" THEN "nan" ELSE "finite")
      [] block = Key(<<"positive_ratio">>) -> window.labels
      [] OTHER -> "finite"

\* The cells of a window's row, one per column: corr_* is already 0.0 when
\* the correlation is NaN, severity_* is taken after fillna(0),
\* samples_in_window is a count.
RawRow(columns, window) ==
    [j \in 1..Len(columns) |->
        IF columns[j] \in SeqRange(WindowIdentityKeys)
        THEN IdentityCell(columns[j], window)
        ELSE RawStatistic(columns[j], window.sensors)]

\* The columns transform normalises: all but these six.
TransformNonFeatureCols ==
    {Key(<<"label">>), Key(<<"vehicle_id">>), Key(<<"window_index">>),
     Key(<<"window_start_ts">>), Key(<<"window_end_ts">>),
     Key(<<"positive_ratio">>)}

\* .replace([np.inf, -np.inf], np.nan) and .fillna(0.0)
ReplaceInf(cell) == IF cell = "inf" THEN "nan" ELSE cell
Fillna(cell) == IF cell = "nan" THEN "finite" ELSE cell

\* features_df[feature_cols] = ....replace(...); ....fillna(0.0)
Normalise(columns, rows) ==
    [i \in 1..Len(rows) |->
        [j \in 1..Len(columns) |->
            IF columns[j] \in TransformNonFeatureCols THEN rows[i][j]
            ELSE Fillna(ReplaceInf(rows[i][j]))]]

\* The feature table transform returns for the given windows.
FeatureTable(sensor_cols, has_severity, windows) ==
    LET columns == FeatureTableColumns(sensor_cols, <<>>, has_severity)
    IN  [columns |-> columns,
         cells |-> Normalise(columns,
                     [i \in 1..Len(windows) |-> RawRow(columns, windows[i])])]

----------------------------------------------------------------------------
(* Severity features of a window *)

\* Cells of a textual severity column: the four levels, a string outside
\* the mapping, a missing value.
SeverityTexts == {"Low", "Medium", "High", "Critical", "Severe", "missing"}

\* Cells of a numeric severity column: <<>> is NaN, <<n>> the number n.
SeverityNumbers == {<<>>} \cup {<<n>> : n \in 0..3}

\* The mapping without its last entry.
SeverityMappingToHigh(text) ==
    CASE text = "Low" -> <<0>>
      [] text = "Medium" -> <<1>>
      [] text = "High" -> <<2>>
      [] OTHER -> <<>>

\* severity_series.map({"Low": 0, "Medium": 1, "High": 2, "Critical": 3}):
\* a value that is no key of the mapping becomes NaN.
SeverityMapping(text) ==
    CASE text = "Low" -> <<0>>
      [] text = "Medium" -> <<1>>
      [] text = "High" -> <<2>>
      [] text = "Critical" -> <<3>>
      [] OTHER -> <<>>

\* .fillna(0)
FillnaZero(s) == [i \in 1..Len(s) |-> IF s[i] = <<>> THEN 0 ELSE s[i][1]]

SeqMax(s) == CHOOSE x \in SeqRange(s) : \A y \in SeqRange(s) : y <= x

\* The severity part of _compute_window_features for a window with the
\* given cells in severity_col: nothing when the column is absent,
\* otherwise severity_max and severity_mean of the numeric series.
SeverityFeatures(present, textual, cells) ==
    IF ~present THEN [keys |-> <<>>, severity_max |-> 0,
                      severity_mean |-> <<0, 1>>]
    ELSE LET severity_numeric ==
                IF textual
                THEN FillnaZero([i \in 1..Len(cells) |->
                                    SeverityMapping(cells[i])])
                ELSE FillnaZero(cells)
         IN  [keys |-> SeverityKeys,
              severity_max |-> SeqMax(severity_numeric),
              severity_mean |-> <<SumSeq(severity_numeric),
                                  Len(severity_numeric)>>]

----------------------------------------------------------------------------
(* Statistics helpers of the feature engineer *)

NoCall == [fn |-> "none"]
NoReturn == [status |-> "none"]

Samples == 0..MaxSample

\* np.signbit(series - np.mean(series)): an entry is below the mean exactly
\* when len(series) times the entry is below the sum of the series.
SignbitCentered(series) ==
    LET total == SumSeq(series)
    IN  [i \in 1..Len(series) |-> Len(series) * series[i] < total]

\* np.signbit(series): no reading is negative.
SignbitRaw(series) == [i \in 1..Len(series) |-> series[i] < 0]

\* np.where(np.diff(bits))[0]: the positions whose neighbour differs
Crossings(bits) == {i \in 1..(Len(bits) - 1) : bits[i] # bits[i + 1]}

\* The rate taken on the series itself, without centring.
ZeroCrossingRateUncentered(series) ==
    IF Len(series) < 2 THEN <<0, 1>>
    ELSE <<Cardinality(Crossings(SignbitRaw(series))), Len(series) - 1>>

\* _zero_crossing_rate(series)
ZeroCrossingRate(series) ==
    IF Len(series) < 2 THEN <<0, 1>>
    ELSE <<Cardinality(Crossings(SignbitCentered(series))), Len(series) - 1>>

----------------------------------------------------------------------------
(* The segmentation state machine *)

Init ==
    /\ fe = Unbuilt
    /\ args = NoArgs
    /\ df = NoFrame
    /\ out = NoResult
    /\ pc = "start"
    /\ det = NoDetector
    /\ val = NoValidation
    /\ info = NoInfo
    /\ dpc = "start"
    /\ y_train = <<>>
    /\ params = NoParams
    /\ artifacts = NoArtifacts
    /\ last_features = NoFeatures
    /\ fitcall = NoFit
    /\ fs = EmptyTree
    /\ cli = NoRun
    /\ cpc = "shell"
    /\ helper = NoCall
    /\ result = NoReturn

\* engineer = AccelerometerFeatureEngineer(window_size=..., step_size=...)
Construct ==
    /\ pc = "start"
    /\ \E w \in WindowSizeArgs, s \in StepSizeArgs :
          /\ args' = [window_size |-> w, step_size |-> s]
          /\ fe' = NewEngineer(w, s)
    /\ pc' = IF fe'.status = "ok" THEN "ready" ELSE "failed"
    /\ UNCHANGED <<df, out>>
    /\ UNCHANGED <<detvars, extvars>>

\* engineer.transform(df)
Transform ==
    /\ pc = "ready"
    /\ \E cols \in ColumnSets, n \in 0..MaxRows :
          \E f \in CellChoices(cols, n) :
              /\ df' = Frame(cols, n, f)
              /\ out' = TransformResult(fe, Frame(cols, n, f))
    /\ pc' = "called"
    /\ UNCHANGED <<fe, args>>
    /\ UNCHANGED <<detvars, extvars>>

\* The caller drops the frame and the outcome; the engineer is kept for the
\* next call (transform does not assign to self).
Discard ==
    /\ pc = "called"
    /\ df' = NoFrame
    /\ out' = NoResult
    /\ pc' = "ready"
    /\ UNCHANGED <<fe, args>>
    /\ UNCHANGED <<detvars, extvars>>

NextSegment == Construct \/ Transform \/ Discard

SpecSegment == Init /\ [][NextSegment]_vars

----------------------------------------------------------------------------
(* The threshold-selection state machine *)

\* detector = AccelerometerAccidentDetector(target_recall=...): the engineer
\* it holds is built with the default window arguments.
ConstructDetector ==
    /\ dpc = "start"
    /\ \E t \in TargetRecalls : det' = NewDetector(t)
    /\ args' = [window_size |-> DefaultWindowSize, step_size |-> NoneArg]
    /\ fe' = NewEngineer(DefaultWindowSize, NoneArg)
    /\ dpc' = "ready"
    /\ UNCHANGED <<df, out, pc, val, info, extvars>>

\* threshold_info = self._optimise_threshold(y_test, y_proba)
CallOptimiseThreshold ==
    /\ dpc = "ready"
    /\ \E n \in 1..MaxVal :
          \E f \in [1..n -> Labels \X Scores] :
              /\ val' = Validation(n, f)
              /\ info' = OptimiseThreshold(det, Validation(n, f).y_true,
                                           Validation(n, f).y_proba)
    /\ dpc' = "called"
    /\ UNCHANGED <<det, segvars, extvars>>

\* The caller drops the dictionary; the detector is kept.
DiscardInfo ==
    /\ dpc = "called"
    /\ val' = NoValidation
    /\ info' = NoInfo
    /\ dpc' = "ready"
    /\ UNCHANGED <<det, segvars, extvars>>

NextThreshold == ConstructDetector \/ CallOptimiseThreshold \/ DiscardInfo

SpecThreshold == Init /\ [][NextThreshold]_vars

----------------------------------------------------------------------------
(* The class-weight state machine *)

\* model_params = self._apply_class_weight(y_train)
CallApplyClassWeight ==
    /\ dpc = "ready"
    /\ \E n \in 0..MaxTrain :
          \E y \in [1..n -> Labels] :
              /\ y_train' = y
              /\ params' = ApplyClassWeight(y)
    /\ dpc' = "weighted"
    /\ UNCHANGED <<det, val, info, segvars, fitvars, clivars, helpervars>>

\* The caller drops the dictionary; the detector is kept.
DiscardParams ==
    /\ dpc = "weighted"
    /\ y_train' = <<>>
    /\ params' = NoParams
    /\ dpc' = "ready"
    /\ UNCHANGED <<det, val, info, segvars, fitvars, clivars, helpervars>>

NextWeight == ConstructDetector \/ CallApplyClassWeight \/ DiscardParams

SpecWeight == Init /\ [][NextWeight]_vars

----------------------------------------------------------------------------
(* The fit state machine: fit() calls on one detector *)

TransformErrors == {ErrMissingSensor, ErrMissingLabel, ErrNoWindows}

\* detector.fit(df): transform raises, or returns a feature table (with the
\* severity features when df has the severity column) on which the rest of
\* fit runs.
FitReturns(r) ==
    /\ last_features' = r.last_features
    /\ artifacts' = r.artifacts
    /\ fitcall' = r.call

Fit ==
    /\ dpc = "ready"
    /\ \/ \E msg \in TransformErrors :
             FitReturns(FitTransformError(msg, last_features, artifacts))
       \/ \E s \in BOOLEAN :
             LET columns == FeatureTableColumns(DefaultSensorCols, <<>>, s)
             IN  \E n \in 1..MaxFit :
                    \E pos \in 0..n :
                       \E split \in TrainTestSplit(pos, n - pos) :
                          \E lib \in BuildsFor(split),
                             f \in [1..(split.test_pos + split.test_neg)
                                        -> Scores] :
                             FitReturns(FitResult(det, artifacts, columns,
                                                  pos, n - pos, split, f, lib))
    /\ dpc' = "fitted"
    /\ UNCHANGED <<det, val, info, segvars, weightvars, helpervars, clivars>>

\* The caller is done with the call's outcome; the detector keeps its
\* last_features_ and artifacts.
ReturnFit ==
    /\ dpc = "fitted"
    /\ fitcall' = NoFit
    /\ dpc' = "ready"
    /\ UNCHANGED <<det, val, info, segvars, weightvars, helpervars, clivars,
                   artifacts, last_features>>

NextFit == ConstructDetector \/ Fit \/ ReturnFit

SpecFit == Init /\ [][NextFit]_vars

----------------------------------------------------------------------------
(* Saving from a detector: fit() calls, then save_model or save_metrics *)

\* detector.fit(df) while nothing has been saved
FitBeforeSaving ==
    /\ fs = EmptyTree
    /\ result.status = "none"
    /\ Fit

ReturnFitBeforeSaving ==
    /\ fs = EmptyTree
    /\ result.status = "none"
    /\ ReturnFit

Saved(call, r) ==
    /\ helper' = call
    /\ fs' = r.tree
    /\ result' = IF r.status = "ok" THEN [status |-> "ok", value |-> call.path]
                  ELSE [status |-> "error", error |-> ErrNoFit]

\* detector.save_model(path)
CallSaveModel ==
    /\ dpc \in {"ready", "fitted"}
    /\ result.status = "none"
    /\ Saved([fn |-> "save_model", path |-> DefaultModelPath],
             SaveModel(artifacts, fs, DefaultModelPath))
    /\ UNCHANGED <<segvars, detvars, weightvars, fitvars, cli, cpc>>

\* detector.save_metrics(path)
CallSaveMetrics ==
    /\ dpc \in {"ready", "fitted"}
    /\ result.status = "none"
    /\ Saved([fn |-> "save_metrics", path |-> DefaultMetricsPath],
             SaveMetrics(artifacts, fs, DefaultMetricsPath))
    /\ UNCHANGED <<segvars, detvars, weightvars, fitvars, cli, cpc>>

\* The caller removes what was written and goes on.
RemoveSaved ==
    /\ result.status # "none"
    /\ helper.fn \in {"save_model", "save_metrics"}
    /\ helper' = NoCall
    /\ result' = NoReturn
    /\ fs' = EmptyTree
    /\ UNCHANGED <<segvars, detvars, weightvars, fitvars, cli, cpc>>

NextSave ==
    \/ ConstructDetector
    \/ FitBeforeSaving
    \/ ReturnFitBeforeSaving
    \/ CallSaveModel
    \/ CallSaveMetrics
    \/ RemoveSaved

SpecSave == Init /\ [][NextSave]_vars

----------------------------------------------------------------------------
(* The training program, run on a clean output tree *)

Ran(r) ==
    /\ fs' = r.tree
    /\ cli' = r.run
    /\ cpc' = "exited"

\* python scripts/train_accelerometer_accident_detector.py [--metrics-path p]
\* The data file is missing, or lacks the label column, or the detector
\* (default arguments) is fitted on it and the artifacts are saved.
TrainProgram(metrics_paths) ==
    /\ cpc = "shell"
    /\ \/ \E msg \in {ErrDataNotFound, ErrMissingLabel} :
             Ran(TrainStopped(fs, msg))
       \/ \E msg \in {ErrMissingSensor, ErrNoWindows} :
             Ran(TrainAfterLoad(fs, FitTransformError(msg, NoFeatures,
                                                      NoArtifacts),
                                <<>>, DefaultMetricsPath, TRUE, TRUE))
       \/ \E s \in BOOLEAN,
             metrics_path \in metrics_paths :
             LET columns == FeatureTableColumns(DefaultSensorCols, <<>>, s)
             IN  \E n \in 1..MaxFit :
                    \E pos \in 0..n :
                       \E split \in TrainTestSplit(pos, n - pos) :
                          \E lib \in BuildsFor(split),
                             f \in [1..(split.test_pos + split.test_neg)
                                        -> Scores] :
                             LET r == FitResult(NewDetector(DefaultTargetRecall),
                                                NoArtifacts, columns, pos,
                                                n - pos, split, f, lib)
                             IN  IF r.call.status = "error"
                                 THEN Ran(TrainAfterLoad(fs, r, <<>>,
                                             metrics_path, TRUE, TRUE))
                                 ELSE \E draws \in [1..4 -> DemoDraws],
                                         dump_ok, roc_ok \in BOOLEAN :
                                         Ran(TrainAfterLoad(fs, r, draws,
                                                 metrics_path, dump_ok, roc_ok))
    /\ UNCHANGED <<segvars, detvars, weightvars, helpervars, fitvars>>

TrainMain ==
    TrainProgram({DefaultMetricsPath, MetricsBeside(DefaultModelPath)})

\* The user removes what the programs wrote.
CleanOutputs ==
    /\ cpc = "exited"
    /\ fs' = EmptyTree
    /\ cli' = NoRun
    /\ cpc' = "shell"
    /\ UNCHANGED <<segvars, detvars, weightvars, helpervars, fitvars>>

NextTrainCli == TrainMain \/ CleanOutputs

SpecTrainCli == Init /\ [][NextTrainCli]_vars

----------------------------------------------------------------------------
(* The inference program, run on what training left in the output tree *)

TwoAxisSensorCols == <<"accel_x", "accel_y">>
RepeatedSensorCols == <<"accel_x", "accel_x", "accel_y">>

\* detector = AccelerometerAccidentDetector(); detector.fit(df, sensor_cols)
\* succeeds; detector.save_model(model_path); and, when save_metrics is
\* chosen, detector.save_metrics beside the model.
FitAndSave ==
    /\ cpc = "shell"
    /\ ~Exists(fs, DefaultModelPath)
    /\ \E sensor_cols \in {DefaultSensorCols, TwoAxisSensorCols},
          s, save_metrics \in BOOLEAN :
          LET columns == FeatureTableColumns(sensor_cols, <<>>, s)
          IN  \E n \in 1..MaxFit :
                 \E pos \in 1..(n - 1) :
                    \E split \in TrainTestSplit(pos, n - pos) :
                       \E lib \in BuildsFor(split),
                          f \in [1..(split.test_pos + split.test_neg)
                                     -> Scores] :
                          LET r == FitResult(NewDetector(DefaultTargetRecall),
                                             NoArtifacts, columns, pos,
                                             n - pos, split, f, lib)
                              t1 == SaveModel(r.artifacts, fs,
                                              DefaultModelPath).tree
                              t2 == SaveMetrics(r.artifacts, t1,
                                        MetricsBeside(DefaultModelPath)).tree
                          IN  /\ r.call.status = "ok"
                              /\ fs' = IF save_metrics THEN t2 ELSE t1
    /\ UNCHANGED <<cli, cpc, segvars, detvars, weightvars, helpervars, fitvars>>

\* A file is put beside the model under the name of the metrics document:
\* text that is not JSON, or a JSON object with or without the
\* optimal_threshold entry.
UserWritesMetrics ==
    /\ cpc = "shell"
    /\ ~Exists(fs, MetricsBeside(DefaultModelPath))
    /\ \/ fs' = [fs EXCEPT ![MetricsBeside(DefaultModelPath)] =
                     [kind |-> "text"]]
       \/ \E t \in Scores, keys \in {MetricsKeys,
                                      MetricsKeys \ {"optimal_threshold"}} :
             fs' = [fs EXCEPT ![MetricsBeside(DefaultModelPath)] =
                      JsonFile(keys,
                          [NoMetrics EXCEPT
                              !.threshold_info.optimal_threshold = t])]
    /\ UNCHANGED <<cli, cpc, segvars, detvars, weightvars, helpervars, fitvars>>

ThresholdArgs == {NoneArg} \cup {<<(<<t, MaxScore>>)>> : t \in Scores}

\* python scripts/predict_accidents.py --data-path d [--threshold t]
\*     [--sensor-cols a b c]
PredictProgram(threshold_args, sensor_cols_args) ==
    /\ cpc = "shell"
    /\ \E threshold_arg \in threshold_args,
          sensor_cols \in sensor_cols_args :
          \/ Ran(PredictRun(fs, threshold_arg, sensor_cols, NoInput, <<>>))
          \/ \E has_sensors, has_severity \in BOOLEAN, n \in 0..MaxPredict :
                LET input == DataFile(has_sensors, has_severity, n)
                    stopped == PredictRun(fs, threshold_arg, sensor_cols,
                                          input, <<>>)
                IN  IF n = 0 \/ stopped.run.status = "error"
                    THEN Ran(stopped)
                    ELSE \E probabilities \in [1..n -> Scores] :
                            Ran(PredictRun(fs, threshold_arg, sensor_cols,
                                           input, probabilities))
    /\ UNCHANGED <<segvars, detvars, weightvars, helpervars, fitvars>>

PredictMain ==
    PredictProgram(ThresholdArgs, {DefaultSensorCols, RepeatedSensorCols})

NextPredictCli ==
    FitAndSave \/ UserWritesMetrics \/ PredictMain \/ CleanOutputs

SpecPredictCli == Init /\ [][NextPredictCli]_vars

----------------------------------------------------------------------------
(* The two programs run one after the other with their default arguments *)

\* python scripts/train_accelerometer_accident_detector.py, on a clean
\* output tree
TrainDefaults ==
    /\ fs = EmptyTree
    /\ TrainProgram({DefaultMetricsPath})

\* The training program has exited; the shell takes the next command.
NextCommand ==
    /\ cpc = "exited"
    /\ cli.prog = "train"
    /\ cpc' = "shell"
    /\ cli' = NoRun
    /\ UNCHANGED <<fs, segvars, detvars, weightvars, helpervars, fitvars>>

\* python scripts/predict_accidents.py --data-path d
PredictDefaults == PredictProgram({NoneArg}, {DefaultSensorCols})

NextDefaults ==
    TrainDefaults \/ NextCommand \/ PredictDefaults \/ CleanOutputs

SpecDefaults == Init /\ [][NextDefaults]_vars

----------------------------------------------------------------------------
(* Calls of the zero-crossing rate *)

Returns(call, value) ==
    /\ helper' = call
    /\ result' = [status |-> "ok", value |-> value]

Returned(fn) == helper.fn = fn /\ result.status = "ok"

\* AccelerometerFeatureEngineer._zero_crossing_rate(series)
CallZeroCrossingRate ==
    /\ result.status = "none"
    /\ \E n \in 0..MaxSeries :
          \E series \in [1..n -> Samples] :
             Returns([fn |-> "_zero_crossing_rate", series |-> series],
                     ZeroCrossingRate(series))
    /\ UNCHANGED <<segvars, detvars, weightvars, fitvars, clivars>>

\* The caller drops the value.
DiscardResult ==
    /\ result.status = "ok"
    /\ helper' = NoCall
    /\ result' = NoReturn
    /\ UNCHANGED <<segvars, detvars, weightvars, fitvars, clivars>>

NextZcr == CallZeroCrossingRate \/ DiscardResult

SpecZcr == Init /\ [][NextZcr]_vars

----------------------------------------------------------------------------
(* Feature names of the rows of one transform call *)

SensorColsArgs == {DefaultSensorCols, TwoAxisSensorCols, RepeatedSensorCols}
MetadataColsArgs == {<<>>, <<"road_type">>}

Window(len, mode_empty) == [len |-> len, mode_empty |-> mode_empty]

Raises(call, msg) ==
    /\ helper' = call
    /\ result' = [status |-> "error", error |-> msg]

\* engineer._compute_window_features(window, sensor_cols, metadata_cols,
\* severity_col) on a window of any length
CallComputeWindowFeatures ==
    /\ result.status = "none"
    /\ \E sensor_cols \in SensorColsArgs, metadata_cols \in MetadataColsArgs,
          has_severity, mode_empty \in BOOLEAN, len \in 0..MaxWindow :
          LET call == [fn |-> "_compute_window_features",
                       sensor_cols |-> sensor_cols,
                       metadata_cols |-> metadata_cols,
                       has_severity |-> has_severity,
                       windows |-> <<Window(len, mode_empty)>>]
              r == ComputeWindowFeatureKeys(call.windows[1], sensor_cols,
                                            metadata_cols, has_severity)
          IN  IF r.status = "error" THEN Raises(call, r.error)
              ELSE Returns(call, <<r.value>>)
    /\ UNCHANGED <<segvars, detvars, weightvars, fitvars, clivars>>

\* The window loop of transform for an engineer with the given window_size:
\* every window has window_size rows, and its feature_row is what
\* _compute_window_features returns with the six identity keys assigned.
TransformRows ==
    /\ result.status = "none"
    /\ \E sensor_cols \in SensorColsArgs, metadata_cols \in MetadataColsArgs,
          has_severity \in BOOLEAN, window_size \in 1..MaxWindow,
          k \in 1..MaxTableRows :
          \E empty \in [1..k -> BOOLEAN] :
             LET call == [fn |-> "transform",
                          sensor_cols |-> sensor_cols,
                          metadata_cols |-> metadata_cols,
                          has_severity |-> has_severity,
                          windows |-> [i \in 1..k |->
                                          Window(window_size, empty[i])]]
             IN  Returns(call,
                    [i \in 1..k |->
                        DictUpdate(
                            ComputeWindowFeatureKeys(call.windows[i],
                                sensor_cols, metadata_cols,
                                has_severity).value,
                            WindowIdentityKeys)])
    /\ UNCHANGED <<segvars, detvars, weightvars, fitvars, clivars>>

NextKeys == CallComputeWindowFeatures \/ TransformRows \/ DiscardResult

SpecKeys == Init /\ [][NextKeys]_vars

----------------------------------------------------------------------------
(* Cell values of the table of one transform call *)

WindowCells(sensors, timestamps, labels) ==
    [sensors |-> sensors, timestamps |-> timestamps, labels |-> labels]

\* engineer.transform(df) for a frame with the default sensor columns, with
\* or without the severity column, that makes 1..MaxTableRows windows.
TransformCells ==
    /\ result.status = "none"
    /\ \E has_severity \in BOOLEAN, k \in 1..MaxTableRows :
          \E s \in [1..k -> SensorKinds], t \in [1..k -> TimestampKinds],
             l \in [1..k -> LabelKinds] :
             LET windows == [i \in 1..k |-> WindowCells(s[i], t[i], l[i])]
             IN  Returns([fn |-> "transform cells",
                          has_severity |-> has_severity,
                          windows |-> windows],
                         FeatureTable(DefaultSensorCols, has_severity,
                                      windows))
    /\ UNCHANGED <<segvars, detvars, weightvars, fitvars, clivars>>

NextCells == TransformCells \/ DiscardResult

SpecCells == Init /\ [][NextCells]_vars

----------------------------------------------------------------------------
(* Severity features of one window *)

\* The severity branch of _compute_window_features on a window of
\* 1..MaxSeries rows: the column is absent, textual (dtype object), or
\* numeric.
CallSeverityFeatures ==
    /\ result.status = "none"
    /\ \/ Returns([fn |-> "severity", present |-> FALSE, textual |-> FALSE,
                   cells |-> <<>>],
                  SeverityFeatures(FALSE, FALSE, <<>>))
       \/ \E n \in 1..MaxSeries, textual \in BOOLEAN :
             \E cells \in [1..n -> IF textual THEN SeverityTexts
                                             ELSE SeverityNumbers] :
                Returns([fn |-> "severity", present |-> TRUE,
                         textual |-> textual, cells |-> cells],
                        SeverityFeatures(TRUE, textual, cells))
    /\ UNCHANGED <<segvars, detvars, weightvars, fitvars, clivars>>

NextSeverity == CallSeverityFeatures \/ DiscardResult

SpecSeverity == Init /\ [][NextSeverity]_vars

----------------------------------------------------------------------------
(* Vocabulary of the segmentation claims: the input frame as the caller    *)
(* sees it, described without the sort and the loop of transform.          *)

Called == pc = "called"
ValidCols == SensorCols \subseteq df.cols /\ LabelCol \in df.cols

RowIds == 1..Len(df.rows)
VidOfRow(i) == IF VehicleCol \in df.cols THEN df.rows[i].vid ELSE DefaultVehicle
TsOfRow(i) == IF TimestampCol \in df.cols THEN df.rows[i].ts ELSE i - 1
InputVehicles == {VidOfRow(i) : i \in RowIds}
RowsOfVehicle(v) == {i \in RowIds : VidOfRow(i) = v}
GroupLen(v) == Cardinality(RowsOfVehicle(v))

\* Row i precedes row j in the time-ascending order of its vehicle
\* (rows with equal timestamps keep their input order).
Precedes(i, j) == TsOfRow(i) < TsOfRow(j) \/ (TsOfRow(i) = TsOfRow(j) /\ i < j)

WindowIds == 1..Len(out.windows)
WindowsOfVehicle(v) == SelectSeq(out.windows, LAMBDA w : w.vehicle_id = v)
SampleRows(w) == {w.samples[i].idx + 1 : i \in 1..Len(w.samples)}

\* q = floor(a / b)
IsFloorQuotient(q, a, b) ==
    /\ b # 0
    /\ b > 0 => (q * b <= a /\ a < (q + 1) * b)
    /\ b < 0 => (q * b >= a /\ a > (q + 1) * b)

\* C1: every vehicle group of L samples gives floor((L - window_size) /
\* step_size) + 1 windows when L >= window_size and none when L < window_size.
C1_WindowCount ==
    (Called /\ ValidCols) =>
        \A v \in InputVehicles :
            IF GroupLen(v) < fe.window_size
                THEN Len(WindowsOfVehicle(v)) = 0
                ELSE \E q \in (0 - MaxRows) .. MaxRows :
                        /\ IsFloorQuotient(q, GroupLen(v) - fe.window_size, fe.step_size)
                        /\ Len(WindowsOfVehicle(v)) = q + 1

\* The count of C1 over the engineers whose step_size is positive.
WindowCountPositiveStep ==
    (Called /\ ValidCols /\ fe.step_size > 0) =>
        \A v \in InputVehicles :
            Len(WindowsOfVehicle(v)) =
                IF GroupLen(v) < fe.window_size THEN 0
                ELSE (GroupLen(v) - fe.window_size) \div fe.step_size + 1

\* C2: every emitted window is window_size consecutive samples of one
\* vehicle's time-ascending group: one vehicle id, no partial window.
C2_WindowsWellFormed ==
    Called =>
        \A k \in WindowIds :
            LET w == out.windows[k]
                n == Len(w.samples)
            IN  /\ n = fe.window_size
                /\ Cardinality(SampleRows(w)) = n
                /\ SampleRows(w) \subseteq RowsOfVehicle(w.vehicle_id)
                /\ \A i \in 1..(n - 1) :
                      Precedes(w.samples[i].idx + 1, w.samples[i + 1].idx + 1)
                /\ \A r \in RowsOfVehicle(w.vehicle_id) \ SampleRows(w) :
                      \/ Precedes(r, w.samples[1].idx + 1)
                      \/ Precedes(w.samples[n].idx + 1, r)

\* Two vehicles arrive interleaved and out of time order; one has exactly a
\* full window (the next hop would leave a partial one), the other is too
\* short for a window.
C2_Witness ==
    /\ Called /\ out.status = "ok"
    /\ fe.window_size = 2 /\ fe.step_size = 1
    /\ Cardinality(InputVehicles) = 2
    /\ \E i, j, k \in RowIds :
          /\ i < j /\ j < k
          /\ VidOfRow(i) = VidOfRow(k) /\ VidOfRow(j) # VidOfRow(i)
          /\ TsOfRow(k) < TsOfRow(i)

\* C3: the k-th window of a vehicle (k = 0, 1, ...) starts at offset
\* k * step_size of the time-sorted group and has window_index = k; 250
\* samples with window_size 100 and step_size 50 give offsets 0, 50, 100, 150.
C3_WindowIndex ==
    /\ Called =>
          \A v \in InputVehicles :
              LET ws == WindowsOfVehicle(v)
              IN  \A k \in 1..Len(ws) :
                      /\ ws[k].window_index = k - 1
                      /\ Cardinality({r \in RowsOfVehicle(v) :
                                        Precedes(r, ws[k].samples[1].idx + 1)})
                            = (k - 1) * fe.step_size
    /\ WindowStarts(250, 100, 50) = <<0, 50, 100, 150>>
    /\ [k \in 1..4 |-> WindowStarts(250, 100, 50)[k] \div 50] = <<0, 1, 2, 3>>

\* A vehicle with two windows whose hop is larger than one sample.
C3_Witness ==
    /\ Called /\ out.status = "ok"
    /\ fe.step_size >= 2
    /\ \E v \in InputVehicles : Len(WindowsOfVehicle(v)) >= 2

\* C4: a window's label is 1 iff one of its samples has label 1, and its
\* positive_ratio is the mean of the sample labels, within [0, 1].
C4_WindowLabel ==
    Called =>
        \A k \in WindowIds :
            LET w == out.windows[k]
                positives == {r \in SampleRows(w) : df.rows[r].label = 1}
            IN  /\ w.label \in {0, 1}
                /\ w.label = 1 <=> positives # {}
                /\ w.positive_ratio[2] = Cardinality(SampleRows(w))
                /\ w.positive_ratio[2] > 0
                /\ w.positive_ratio[1] = Cardinality(positives)
                /\ 0 <= w.positive_ratio[1]
                /\ w.positive_ratio[1] <= w.positive_ratio[2]

\* A window holding one positive and one negative sample.
C4_Witness ==
    /\ Called /\ out.status = "ok"
    /\ \E k \in WindowIds :
          /\ out.windows[k].label = 1
          /\ out.windows[k].positive_ratio = <<1, 2>>

\* C5: every constructed engineer has step_size > 0, and window_size / 2
\* when no step_size was supplied.
C5_StepPositive ==
    fe.status = "ok" =>
        /\ fe.step_size > 0
        /\ args.step_size = NoneArg => fe.step_size = fe.window_size \div 2

\* C6: window_size <= 0 fails the construction, and a frame without a
\* sensor column or without the label column fails transform with a
\* validation error; no feature row is produced in either case.
C6_ValidationErrors ==
    /\ (pc # "start" /\ args.window_size <= 0) =>
          /\ fe.status = "error" /\ fe.error = ErrWindowSize
          /\ pc = "failed" /\ out = NoResult
    /\ (Called /\ ~ValidCols) =>
          /\ out.status = "error"
          /\ out.error \in {ErrMissingSensor, ErrMissingLabel}
          /\ out.windows = <<>>

\* A frame without the label column, long enough for a window.
C6_Witness ==
    /\ Called /\ LabelCol \notin df.cols
    /\ fe.step_size > 0
    /\ \E v \in InputVehicles : GroupLen(v) >= fe.window_size
    /\ out.status = "error"

\* C7: transform fails with the no-windows error, which is not the
\* missing-column error, exactly when no vehicle has window_size samples; a
\* short group next to a long enough one is skipped without any error.
C7_NoWindowsError ==
    /\ ErrNoWindows \notin {ErrMissingSensor, ErrMissingLabel}
    /\ (Called /\ ValidCols) =>
          /\ (out.status = "error" /\ out.error = ErrNoWindows)
                <=> (\A v \in InputVehicles : GroupLen(v) < fe.window_size)
          /\ (\E v \in InputVehicles : GroupLen(v) >= fe.window_size)
                => out.status = "ok"

\* The error behaviour of C7 over the engineers whose step_size is positive.
NoWindowsErrorPositiveStep ==
    (Called /\ ValidCols /\ fe.step_size > 0) =>
        /\ (out.status = "error" /\ out.error = ErrNoWindows)
              <=> (\A v \in InputVehicles : GroupLen(v) < fe.window_size)
        /\ (\E v \in InputVehicles : GroupLen(v) >= fe.window_size)
              => out.status = "ok"

----------------------------------------------------------------------------
(* Vocabulary of the threshold claims *)

ThresholdChosen == dpc = "called"
Curve == PrecisionRecallCurve(val.y_true, val.y_proba)

\* The candidates: 0.0, then the curve's thresholds; candidate i is paired
\* with precision[i] and recall[i] of the curve.
Candidates == <<0>> \o Curve.thresholds
CandidateIds == 1..Len(Candidates)
Reaching ==
    LET recall == Curve.recall
    IN  {i \in 1..Len(recall) : RatGeq(recall[i], det.target_recall)}
DistinctScores == {val.y_proba[i] : i \in 1..Len(val.y_proba)}
BothClasses == {val.y_true[i] : i \in 1..Len(val.y_true)} = {0, 1}

\* C8: optimal_threshold is a candidate whose paired precision and recall
\* maximise F1 = 2 * P * R / (P + R + eps) over all candidates.
C8_OptimalThreshold ==
    ThresholdChosen =>
        LET c == Curve
            cand == <<0>> \o c.thresholds
        IN  \E i \in 1..Len(cand) :
                /\ info.optimal_threshold = cand[i]
                /\ \A j \in 1..Len(cand) :
                      ~F1Greater(c.precision[j], c.recall[j],
                                 c.precision[i], c.recall[i])

\* Three distinct scores over both classes, and a best point that is
\* neither the first nor the one after it.
C8_Witness ==
    /\ ThresholdChosen /\ BothClasses
    /\ Cardinality(DistinctScores) >= 3
    /\ info.optimal_threshold > Candidates[2]

\* C9: recall_threshold is the smallest candidate whose recall reaches
\* target_recall; when none does, recall_threshold, recall_precision and
\* recall_recall are optimal_threshold, optimal_precision, optimal_recall.
C9_RecallThreshold ==
    ThresholdChosen =>
        LET cand == Candidates
            reach == Reaching
        IN  IF reach # {}
            THEN \E i \in reach :
                    /\ info.recall_threshold = cand[i]
                    /\ \A j \in reach : cand[i] <= cand[j]
            ELSE /\ info.recall_threshold = info.optimal_threshold
                 /\ info.recall_precision = info.optimal_precision
                 /\ info.recall_recall = info.optimal_recall

\* The default target 0.9 is reached by some candidates and missed by
\* others whose threshold is positive.
C9_Witness ==
    /\ ThresholdChosen /\ BothClasses
    /\ det.target_recall = <<9, 10>>
    /\ Cardinality(Reaching) >= 2
    /\ \E j \in CandidateIds \ Reaching : Candidates[j] > 0

\* C10: whenever some candidate reaches target_recall, recall_threshold is
\* at most optimal_threshold.
C10_RecallBelowOptimal ==
    (ThresholdChosen /\ Reaching # {}) =>
        info.recall_threshold <= info.optimal_threshold

\* The target is reachable and the F1-optimal threshold lies strictly above
\* the recall threshold.
C10_Witness ==
    /\ ThresholdChosen /\ BothClasses
    /\ Reaching # {}
    /\ info.recall_threshold < info.optimal_threshold

----------------------------------------------------------------------------
(* Vocabulary of the class-weight claim *)

Weighted == dpc = "weighted"
PositiveCount == Cardinality({i \in 1..Len(y_train) : y_train[i] = 1})
NegativeCount == Cardinality({i \in 1..Len(y_train) : y_train[i] = 0})

\* C11: the positive-class weight is max(1, negative_count / positive_count)
\* of the labels given and 1 when positive_count is 0; it is a quotient by
\* a non-zero count, always at least 1; 950 negatives and 50 positives give
\* 19.
C11_ClassWeight ==
    /\ Weighted =>
          LET w == params.scale_pos_weight
          IN  /\ w[2] # 0
              /\ RatGeq(w, <<1, 1>>)
              /\ PositiveCount = 0 => RatEq(w, <<1, 1>>)
              /\ PositiveCount > 0 =>
                    IF NegativeCount >= PositiveCount
                    THEN RatEq(w, <<NegativeCount, PositiveCount>>)
                    ELSE RatEq(w, <<1, 1>>)
    /\ RatEq(ClassWeight(50, 950), <<19, 1>>)

\* Positives outnumber negatives, so the quotient is below 1 and the clamp
\* decides.
C11_Witness ==
    /\ Weighted
    /\ NegativeCount > 0
    /\ PositiveCount > NegativeCount

\* No positive label at all: the quotient is undefined.
C11_WitnessNoPositive ==
    /\ Weighted
    /\ Len(y_train) > 0
    /\ PositiveCount = 0

----------------------------------------------------------------------------
(* Vocabulary of the fit claims *)

Fitted == dpc = "fitted"
FitSucceeded == Fitted /\ fitcall.status = "ok"
FitFailed == Fitted /\ fitcall.status = "error"

\* The window labels of the call's feature table take fewer than 2 values
\* (a call whose transform raised has no window at all).
SingleClass == fitcall.pos = 0 \/ fitcall.neg = 0

\* C13: fit on input whose window labels take fewer than 2 distinct values
\* fails and creates no TrainingArtifacts: detector.artifacts keeps the value
\* it had before the call.
C13_SingleClassFit ==
    (Fitted /\ SingleClass) =>
        /\ fitcall.status = "error"
        /\ fitcall.error # NoError
        /\ artifacts = fitcall.artifacts_before

\* A detector that holds the artifacts of an earlier fit is fitted on
\* windows that are all normal; the split and the classifier accept them
\* and the metric report rejects them.
C13_Witness ==
    /\ FitFailed
    /\ fitcall.pos = 0 /\ fitcall.neg >= 2
    /\ fitcall.error = ErrReport
    /\ fitcall.artifacts_before.status = "ok"
    /\ artifacts.status = "ok"

\* C15: after every successful fit, artifacts.threshold equals
\* metrics['optimal_threshold'] and lies in [0, 1], and
\* metrics['recall_threshold'] lies in [0, 1] (thresholds are counted in
\* units of 1 / MaxScore).
C15_ThresholdRange ==
    artifacts.status = "ok" =>
        LET threshold_info == artifacts.metrics.threshold_info
        IN  /\ artifacts.threshold = threshold_info.optimal_threshold
            /\ artifacts.threshold \in 0..MaxScore
            /\ threshold_info.recall_threshold \in 0..MaxScore

\* A fit whose two thresholds differ and whose optimal threshold is neither
\* end of the range.
C15_Witness ==
    /\ FitSucceeded
    /\ artifacts.threshold > 0 /\ artifacts.threshold < MaxScore
    /\ artifacts.metrics.threshold_info.recall_threshold # artifacts.threshold

----------------------------------------------------------------------------
(* Vocabulary of the training-program claims *)

TrainRan == cpc = "exited" /\ cli.prog = "train"

\* The metrics document of the run, when save_metrics wrote one.
WrittenMetrics ==
    {fs[p].metrics : p \in {p \in cli.written : fs[p].kind = "json"}}

\* C14: once fit() has returned, the TrainingArtifacts are not modified by
\* any later step: the metrics document written by save_metrics in the
\* training program holds exactly the accuracy, precision, recall and
\* roc_auc that fit computed on the validation split.
C14_MetricsAsFitted ==
    TrainRan =>
        \A doc \in WrittenMetrics :
            /\ doc.accuracy = cli.fitted.metrics.accuracy
            /\ doc.precision = cli.fitted.metrics.precision
            /\ doc.recall = cli.fitted.metrics.recall
            /\ doc.roc_auc = cli.fitted.metrics.roc_auc

\* What main leaves alone: every other entry of the written document is the
\* one fit computed.
MetricsOtherwiseAsFitted ==
    TrainRan =>
        \A doc \in WrittenMetrics :
            /\ doc.f1 = cli.fitted.metrics.f1
            /\ doc.threshold_info = cli.fitted.metrics.threshold_info

----------------------------------------------------------------------------
(* Vocabulary of the inference-program claims *)

PredictRan == cpc = "exited" /\ cli.prog = "predict"

\* The run got as far as fixing its decision threshold.
ThresholdDecided == PredictRan /\ cli.threshold # <<>>

ModelAbsent == ~Exists(fs, DefaultModelPath)

MetricsDocument == fs[MetricsBeside(DefaultModelPath)]

\* The feature names of the table the run extracted, and the names recorded
\* by the fit that made the pipeline it loaded.
InferenceFeatureNames == SeqRange(ColumnNames(cli.feature_cols))

FittedFeatureNames ==
    SeqRange(ColumnNames(fs[DefaultModelPath].trained_on))

FeaturesExtracted == PredictRan /\ cli.feature_cols # <<>>

\* C12: inference on a feature table whose feature column set differs from
\* the feature_columns recorded at fit time is rejected with a validation
\* error instead of producing predictions.
C12_FeatureMismatchRejected ==
    (FeaturesExtracted /\ InferenceFeatureNames # FittedFeatureNames) =>
        /\ cli.status = "error"
        /\ cli.predictions = <<>>
        /\ DefaultOutputPath \notin cli.written

\* What the code does reject: a feature table with another number of
\* columns than the pipeline was fitted on.
FeatureCountMismatchRejected ==
    (FeaturesExtracted
        /\ Cardinality(InferenceFeatureNames)
               # Cardinality(FittedFeatureNames)) =>
        /\ cli.status = "error"
        /\ cli.error = ErrFeatureCount
        /\ DefaultOutputPath \notin cli.written

\* C19: the inference program's decision threshold is the --threshold
\* argument whenever one is supplied (0.0 included), otherwise the
\* optimal_threshold of the metrics file when that file exists and has the
\* key, otherwise 0.5; and the predictions are taken with that threshold.
C19_DecisionThreshold ==
    ThresholdDecided =>
        /\ cli.threshold[1] =
              IF cli.threshold_arg # NoneArg THEN cli.threshold_arg[1]
              ELSE IF MetricsDocument.kind = "json"
                        /\ "optimal_threshold" \in MetricsDocument.keys
              THEN <<MetricsDocument.metrics.threshold_info.optimal_threshold,
                     MaxScore>>
              ELSE <<1, 2>>
        /\ \A i \in 1..Len(cli.predictions) :
              cli.predictions[i] = 1
                  <=> RatGeq(<<cli.probabilities[i], MaxScore>>,
                             cli.threshold[1])

\* --threshold 0.0 beside a metrics document whose optimal_threshold is
\* larger: a window of probability 0 is predicted an accident.
C19_Witness ==
    /\ ThresholdDecided
    /\ cli.status = "ok"
    /\ cli.threshold_arg = <<(<<0, MaxScore>>)>>
    /\ MetricsDocument.kind = "json"
    /\ "optimal_threshold" \in MetricsDocument.keys
    /\ MetricsDocument.metrics.threshold_info.optimal_threshold > 0
    /\ \E i \in 1..Len(cli.predictions) :
          cli.probabilities[i] = 0 /\ cli.predictions[i] = 1

\* No --threshold and a metrics document with the key.
C19_WitnessMetrics ==
    /\ ThresholdDecided
    /\ cli.status = "ok"
    /\ cli.threshold_arg = NoneArg
    /\ MetricsDocument.kind = "json"
    /\ "optimal_threshold" \in MetricsDocument.keys
    /\ ~RatEq(cli.threshold[1], <<1, 2>>)

\* No --threshold and no usable entry: 0.5.
C19_WitnessFallback ==
    /\ ThresholdDecided
    /\ cli.status = "ok"
    /\ cli.threshold_arg = NoneArg
    /\ MetricsDocument.kind = "json"
    /\ "optimal_threshold" \notin MetricsDocument.keys
    /\ cli.threshold[1] = <<1, 2>>

\* C20: if the model artifact does not exist, or a required sensor column
\* is absent from the input data, the inference program ends with an error
\* and does not write the predictions file.
C20_MissingModelOrSensor ==
    (PredictRan /\ (ModelAbsent
                     \/ (cli.input.exists /\ ~cli.input.has_sensors))) =>
        /\ cli.status = "error"
        /\ cli.error \in {ErrModelNotFound, ErrMissingSensor, ErrJson}
        /\ cli.written = {}
        /\ ~Exists(fs, DefaultOutputPath)

C20_Witness ==
    /\ PredictRan
    /\ ~ModelAbsent
    /\ cli.input.exists /\ ~cli.input.has_sensors
    /\ cli.error = ErrMissingSensor

C20_WitnessNoModel ==
    /\ PredictRan
    /\ ModelAbsent
    /\ cli.input.exists /\ cli.input.has_sensors
    /\ cli.error = ErrModelNotFound

----------------------------------------------------------------------------
(* Vocabulary of the zero-crossing claims *)

StrictlyMonotonic(series) ==
    \/ \A i \in 1..(Len(series) - 1) : series[i] < series[i + 1]
    \/ \A i \in 1..(Len(series) - 1) : series[i] > series[i + 1]

\* The mean-centred values of adjacent samples have opposite signs: one is
\* above the mean and the other below it.
Alternating(series) ==
    LET total == SumSeq(series)
        c(i) == Len(series) * series[i] - total
    IN  \A i \in 1..(Len(series) - 1) : c(i) * c(i + 1) < 0

\* C18 as stated: for every strictly monotonic series of length >= 2 the
\* zero-crossing rate is 0.0, for every series whose mean-centred values
\* alternate in sign at each adjacent pair it is 1.0, and for fewer than 2
\* samples it is 0.0.
C18_ZeroCrossingRate ==
    Returned("_zero_crossing_rate") =>
        /\ (Len(helper.series) >= 2 /\ StrictlyMonotonic(helper.series))
              => RatEq(result.value, <<0, 1>>)
        /\ (Len(helper.series) >= 2 /\ Alternating(helper.series))
              => RatEq(result.value, <<1, 1>>)
        /\ Len(helper.series) < 2 => RatEq(result.value, <<0, 1>>)

\* C18 amended: a strictly monotonic series of n >= 2 samples crosses its
\* mean exactly once, so its rate is 1/(n-1); an alternating series has the
\* rate 1.0 and a series of fewer than 2 samples the rate 0.0.
C18_ZeroCrossingRateAmended ==
    Returned("_zero_crossing_rate") =>
        /\ (Len(helper.series) >= 2 /\ StrictlyMonotonic(helper.series))
              => RatEq(result.value, <<1, Len(helper.series) - 1>>)
        /\ (Len(helper.series) >= 2 /\ Alternating(helper.series))
              => RatEq(result.value, <<1, 1>>)
        /\ Len(helper.series) < 2 => RatEq(result.value, <<0, 1>>)

\* A strictly monotonic series of three or more samples.
C18_Witness ==
    /\ Returned("_zero_crossing_rate")
    /\ Len(helper.series) >= 3
    /\ StrictlyMonotonic(helper.series)
    /\ result.value[1] = 1

\* An alternating series of three or more samples.
C18_WitnessAlternating ==
    /\ Returned("_zero_crossing_rate")
    /\ Len(helper.series) >= 3
    /\ Alternating(helper.series)
    /\ result.value[1] = Len(helper.series) - 1

----------------------------------------------------------------------------
(* Vocabulary of the feature-name claims *)

Names(keys) == SeqRange(ColumnNames(keys))

\* The feature names that follow from the call's configuration alone.
ConfiguredNames ==
    Names(WindowFeatureKeys(helper.sensor_cols, helper.metadata_cols,
                            helper.has_severity))

IdentityNames == Names(WindowIdentityKeys)

RowsReturned ==
    /\ helper.fn \in {"_compute_window_features", "transform"}
    /\ result.status = "ok"

\* C17: all window rows produced by one transform call have the same set of
\* feature names: the keys emitted by _compute_window_features do not depend
\* on the window's contents, only on the call's sensor, metadata and
\* severity column configuration.
C17_SameFeatureNames ==
    RowsReturned =>
        /\ \A i, j \in 1..Len(result.value) :
              Names(result.value[i]) = Names(result.value[j])
        /\ \A i \in 1..Len(result.value) :
              Names(result.value[i]) \ IdentityNames = ConfiguredNames

\* Two rows of one call, one of a window whose metadata values are all
\* missing and one of a window with a mode, of single-sample windows.
C17_Witness ==
    /\ RowsReturned
    /\ helper.fn = "transform"
    /\ helper.metadata_cols # <<>>
    /\ Len(helper.windows) >= 2
    /\ helper.windows[1].mode_empty /\ ~helper.windows[2].mode_empty
    /\ helper.windows[1].len = 1

\* A direct call on an empty window.
C17_WitnessEmptyWindow ==
    /\ RowsReturned
    /\ helper.fn = "_compute_window_features"
    /\ helper.windows[1].len = 0

----------------------------------------------------------------------------
(* Vocabulary of the cell-value claims *)

TableReturned == Returned("transform cells")

\* The cells of a column of the returned table.
ColumnCells(column) ==
    {result.value.cells[i][j] :
        i \in 1..Len(result.value.cells),
        j \in {c \in 1..Len(result.value.columns) :
                  result.value.columns[c] = column}}

\* C16: no cell of the feature table returned by transform is NaN or
\* +/-Infinity, for every input (windows with constant-valued axes
\* included).
C16_NoNanOrInf ==
    TableReturned =>
        \A i \in 1..Len(result.value.cells) :
            \A j \in 1..Len(result.value.columns) :
                result.value.cells[i][j] = "finite"

\* What the normalisation does achieve: every column outside the six
\* identity columns is finite, whatever the readings.
FeatureColumnsFinite ==
    TableReturned =>
        \A j \in 1..Len(result.value.columns) :
            result.value.columns[j] \notin TransformNonFeatureCols
                => ColumnCells(result.value.columns[j]) = {"finite"}

\* A window of constant readings beside a window with a NaN reading.
FeatureColumnsFiniteWitness ==
    /\ TableReturned
    /\ \E i, j \in 1..Len(helper.windows) :
          /\ helper.windows[i].sensors = "constant"
          /\ helper.windows[j].sensors = "nan"

----------------------------------------------------------------------------
(* Vocabulary of the reported-metrics claims *)

HasPositive == \E i \in 1..Len(val.y_true) : val.y_true[i] = 1

\* Precision and recall obtained on the validation split by predicting
\* positive when the score is at least t.
ObtainedPrecision(t) == PrecisionAt(val.y_true, val.y_proba, t)
ObtainedRecall(t) == RecallAt(val.y_true, val.y_proba, t)

\* C26: the optimal_precision and optimal_recall reported by
\* _optimise_threshold are the precision and recall obtained by predicting
\* positive when probability >= optimal_threshold on the same validation
\* labels and scores, and likewise recall_precision and recall_recall for
\* recall_threshold.
C26_ReportedAtThreshold ==
    (ThresholdChosen /\ HasPositive) =>
        /\ RatEq(info.optimal_precision,
                 ObtainedPrecision(info.optimal_threshold))
        /\ RatEq(info.optimal_recall, ObtainedRecall(info.optimal_threshold))
        /\ RatEq(info.recall_precision,
                 ObtainedPrecision(info.recall_threshold))
        /\ RatEq(info.recall_recall, ObtainedRecall(info.recall_threshold))

\* What the reported values are: the precision and recall of the curve
\* point after the chosen candidate, that is of the next larger threshold
\* (of the smallest score for the candidate 0.0).
ReportedOneCandidateLater ==
    ThresholdChosen =>
        LET c == Curve
            cand == Candidates
        IN  \E i \in 1..Len(cand) :
                /\ info.optimal_threshold = cand[i]
                /\ info.optimal_precision = c.precision[i]
                /\ info.optimal_recall = c.recall[i]
                /\ i > 1 => cand[i] = c.thresholds[i - 1]

\* C27: for every target_recall <= 1 and every validation set with at least
\* one positive label, _optimise_threshold does not take the fallback
\* branch and returns recall_threshold = 0.0 whatever the scores: the first
\* curve point has recall 1.
C27_RecallThresholdZero ==
    (ThresholdChosen /\ HasPositive /\ RatGeq(<<1, 1>>, det.target_recall)) =>
        /\ Reaching # {}
        /\ RatEq(Curve.recall[1], <<1, 1>>)
        /\ info.recall_threshold = 0
        /\ info.recall_recall = Curve.recall[1]
        /\ info.recall_precision = Curve.precision[1]

\* The target is 1.0, every score is positive and the best F1 lies at a
\* positive threshold.
C27_Witness ==
    /\ ThresholdChosen /\ BothClasses
    /\ det.target_recall = <<1, 1>>
    /\ \A i \in 1..Len(val.y_proba) : val.y_proba[i] > 0
    /\ info.optimal_threshold > 0
    /\ info.recall_threshold = 0

----------------------------------------------------------------------------
(* Vocabulary of the vehicle-independence claim *)

\* The input with the rows of every vehicle but v removed; the rows of v
\* keep their order and their index.
OnlyVehicle(v) ==
    [cols |-> df.cols, rows |-> SelectSeq(df.rows, LAMBDA r : r.vid = v)]

\* What a window row carries to the feature table.
Emitted(w) ==
    [features |-> w.features, vehicle_id |-> w.vehicle_id,
     window_index |-> w.window_index, window_start_ts |-> w.window_start_ts,
     window_end_ts |-> w.window_end_ts, label |-> w.label,
     positive_ratio |-> w.positive_ratio]

EmittedRows(windows) == [i \in 1..Len(windows) |-> Emitted(windows[i])]

ExplicitTimestamps == TimestampCol \in df.cols /\ VehicleCol \in df.cols

\* C21: the window rows emitted for a vehicle depend only on that vehicle's
\* own samples: in an input with explicit timestamps they are the rows
\* transform emits for the input without the rows of the other vehicles
\* (so adding, removing or reordering those rows changes nothing).
C21_VehicleIndependence ==
    (Called /\ ExplicitTimestamps) =>
        \A v \in InputVehicles :
            EmittedRows(WindowsOfVehicle(v))
                = EmittedRows(TransformResult(fe, OnlyVehicle(v)).windows)

\* Two vehicles whose rows are interleaved in the input, each with windows.
C21_Witness ==
    /\ Called /\ ExplicitTimestamps
    /\ out.status = "ok"
    /\ Cardinality(InputVehicles) = 2
    /\ \A v \in InputVehicles : WindowsOfVehicle(v) # <<>>
    /\ \E i, j, k \in RowIds :
          i < j /\ j < k /\ VidOfRow(i) = VidOfRow(k) /\ VidOfRow(j) # VidOfRow(i)

----------------------------------------------------------------------------
(* Vocabulary of the severity claim *)

\* The ordinal scale: Low 0, Medium 1, High 2, Critical 3, anything else 0.
Ordinal(text) ==
    IF text = "Medium" THEN 1
    ELSE IF text = "High" THEN 2
    ELSE IF text = "Critical" THEN 3
    ELSE 0

SeverityReturned == Returned("severity")

\* C22: when the severity column is present and textual, each window's
\* severity_max and severity_mean are the maximum and the mean of the
\* per-sample values mapped Low->0, Medium->1, High->2, Critical->3, with
\* unmapped or missing values counted as 0; when the column is absent no
\* severity feature is emitted.
C22_SeverityFeatures ==
    SeverityReturned =>
        /\ (helper.present /\ helper.textual) =>
              LET ids == 1..Len(helper.cells)
              IN  /\ Names(result.value.keys)
                        = {<<"severity", "max">>, <<"severity", "mean">>}
                  /\ \E i \in ids :
                        result.value.severity_max = Ordinal(helper.cells[i])
                  /\ \A i \in ids :
                        Ordinal(helper.cells[i]) <= result.value.severity_max
                  /\ RatEq(result.value.severity_mean,
                           <<SumSeq([i \in ids |-> Ordinal(helper.cells[i])]),
                             Len(helper.cells)>>)
        /\ ~helper.present => result.value.keys = <<>>

\* A window with a Critical sample, an unmapped string and a missing value.
C22_Witness ==
    /\ SeverityReturned
    /\ helper.present /\ helper.textual
    /\ {"Critical", "Severe", "missing"} \subseteq SeqRange(helper.cells)
    /\ result.value.severity_max = 3

\* The column is absent.
C22_WitnessAbsent ==
    /\ SeverityReturned
    /\ ~helper.present

----------------------------------------------------------------------------
(* Vocabulary of the saving claims *)

SaveCalled ==
    helper.fn \in {"save_model", "save_metrics"} /\ result.status # "none"

\* The artifacts of the fit() call that has just returned.
ArtifactsOfCall ==
    /\ artifacts.status = "ok"
    /\ artifacts.metrics.threshold_info
          = OptimiseThreshold(det, fitcall.y_test, fitcall.y_proba)
    /\ artifacts.feature_columns = FitFeatureCols(last_features.columns)

\* detector.artifacts holds the artifacts of the most recent successful
\* fit(): a fit() that raised left them as they were, one that succeeded
\* put its own in their place, and before any fit() there are none.
ArtifactsOfLastSuccess ==
    /\ (Fitted /\ fitcall.status = "error")
          => artifacts = fitcall.artifacts_before
    /\ (Fitted /\ fitcall.status = "ok") => ArtifactsOfCall
    /\ dpc = "start" => artifacts.status = "none"

WrittenFile == fs[helper.path]

\* C23: save_model and save_metrics raise RuntimeError and write nothing
\* whenever no fit() has completed successfully on the detector; after a
\* successful fit() both write the artifacts of the most recent successful
\* fit.
C23_SaveAfterFit ==
    /\ ArtifactsOfLastSuccess
    /\ SaveCalled =>
          IF artifacts.status # "ok"
          THEN /\ result.status = "error"
               /\ result.error = ErrNoFit
               /\ fs = EmptyTree
          ELSE /\ result.status = "ok"
               /\ helper.fn = "save_model" =>
                     /\ WrittenFile.kind = "pipeline"
                     /\ WrittenFile.trained_on = artifacts.feature_columns
               /\ helper.fn = "save_metrics" =>
                     /\ WrittenFile.kind = "json"
                     /\ WrittenFile.metrics = artifacts.metrics

\* save_model right after a fit() that raised on a detector whose earlier
\* fit() succeeded: the earlier pipeline is written.
C23_Witness ==
    /\ SaveCalled /\ helper.fn = "save_model"
    /\ Fitted /\ fitcall.status = "error"
    /\ fitcall.artifacts_before.status = "ok"
    /\ result.status = "ok"

\* save_metrics with no successful fit() behind it.
C23_WitnessNoFit ==
    /\ SaveCalled /\ helper.fn = "save_metrics"
    /\ Fitted /\ fitcall.status = "error"
    /\ result.status = "error"

\* C28: after any sequence of fit() calls, successful or failing,
\* detector.last_features_ and detector.artifacts originate from the same
\* fit() call: both are unset, or both are set and the feature columns of
\* the artifacts are those of last_features_.
C28_SameFitCall ==
    /\ last_features.status = "ok" <=> artifacts.status = "ok"
    /\ artifacts.status = "ok"
          => artifacts.feature_columns = FitFeatureCols(last_features.columns)

\* What holds instead: artifacts are untouched by a fit() that raises, and
\* last_features_ is the table of the most recent fit() whose transform
\* returned.
LastFeaturesOfLastTransform ==
    /\ (Fitted /\ fitcall.status = "error")
          => artifacts = fitcall.artifacts_before
    /\ (Fitted /\ fitcall.status = "error"
            /\ fitcall.error \notin TransformErrors)
          => last_features.status = "ok"

----------------------------------------------------------------------------
(* Vocabulary of the feature-matrix claims *)

\* The inference program has selected its feature columns.
PredictExtracted == cli.prog = "predict" /\ cli.feature_cols # <<>>

\* The pipeline file was trained on a table of the schema the inference
\* program was given.
SameSchema ==
    /\ Exists(fs, DefaultModelPath)
    /\ fs[DefaultModelPath].trained_on
          = FitFeatureCols(FeatureTableColumns(cli.sensor_cols, <<>>,
                                               cli.input.has_severity))

\* C24: for the same input schema and windowing parameters, the feature
\* columns the inference program feeds to the loaded pipeline are exactly
\* (same names, same order, same count) the feature_columns on which fit()
\* trained that pipeline.
C24_SameFeatureColumns ==
    (PredictExtracted /\ SameSchema) =>
        ColumnNames(cli.feature_cols)
            = ColumnNames(fs[DefaultModelPath].trained_on)

\* What holds instead: the inference program's columns are those of fit()
\* without positive_ratio.
PredictColumnsLackPositiveRatio ==
    (PredictExtracted /\ SameSchema) =>
        /\ cli.feature_cols
              = ColumnsNotIn(fs[DefaultModelPath].trained_on,
                             {Key(<<"positive_ratio">>)})
        /\ NumColumns(cli.feature_cols) + 1
              = fs[DefaultModelPath].n_features_in

\* The value a window row holds in an identity column.
IdentityValue(w, key) ==
    CASE key = Key(<<"vehicle_id">>) -> w.vehicle_id
      [] key = Key(<<"window_index">>) -> w.window_index
      [] key = Key(<<"window_start_ts">>) -> w.window_start_ts
      [] key = Key(<<"window_end_ts">>) -> w.window_end_ts
      [] key = Key(<<"label">>) -> w.label
      [] key = Key(<<"positive_ratio">>) -> w.positive_ratio

\* X = features_df[feature_cols].values: the computed features of each
\* window and the identity columns fit() does not exclude.
TrainingMatrix(windows) ==
    LET kept == FitFeatureCols(WindowIdentityKeys)
    IN  [i \in 1..Len(windows) |->
            [features |-> windows[i].features,
             identity |-> [j \in 1..Len(kept) |->
                              IdentityValue(windows[i], kept[j])]]]

\* The input with the sample labels replaced by l.
Relabelled(l) ==
    [cols |-> df.cols,
     rows |-> [i \in 1..Len(df.rows) |-> [df.rows[i] EXCEPT !.label = l[i]]]]

\* C25: no column of the training matrix X built by fit() is derived from
\* the label column: two inputs that differ only in their sample labels
\* yield identical X.
C25_LabelIndependence ==
    (Called /\ out.status = "ok") =>
        \A l \in [RowIds -> Labels] :
            TrainingMatrix(TransformResult(fe, Relabelled(l)).windows)
                = TrainingMatrix(out.windows)

\* What holds instead: the computed features and the window positions do
\* not depend on the labels.
FeaturesLabelIndependent ==
    (Called /\ out.status = "ok") =>
        \A l \in [RowIds -> Labels] :
            LET other == TransformResult(fe, Relabelled(l)).windows
            IN  /\ Len(other) = Len(out.windows)
                /\ \A k \in WindowIds :
                      /\ other[k].features = out.windows[k].features
                      /\ other[k].vehicle_id = out.windows[k].vehicle_id
                      /\ other[k].window_index = out.windows[k].window_index

----------------------------------------------------------------------------
(* Vocabulary of the claims about the two programs *)

\* The inference program ran without --threshold after a training run that
\* saved its metrics, and got as far as deciding the threshold.
PredictedAfterTraining ==
    /\ cli.prog = "predict"
    /\ cli.threshold_arg = NoneArg
    /\ cli.threshold # <<>>
    /\ Exists(fs, DefaultMetricsPath)

\* C29: when the training program and then the inference program are both
\* run with their default paths and no --threshold, the inference program
\* finds the metrics file the training program wrote and uses its
\* optimal_threshold as the decision threshold.
C29_DefaultPathsThreshold ==
    PredictedAfterTraining =>
        /\ fs[MetricsBeside(DefaultModelPath)] = fs[DefaultMetricsPath]
        /\ cli.threshold[1]
              = <<fs[DefaultMetricsPath].metrics.threshold_info.optimal_threshold,
                  MaxScore>>

\* What holds instead: the inference program looks beside the model, finds
\* nothing there and decides with 0.5.
DefaultPathsFallBack ==
    PredictedAfterTraining =>
        /\ ~Exists(fs, MetricsBeside(DefaultModelPath))
        /\ cli.threshold[1] = FallbackThreshold

----------------------------------------------------------------------------
(* Vocabulary of the claim about the order of the training program *)

MetricsWritten ==
    Exists(fs, DefaultMetricsPath) \/ Exists(fs, MetricsBeside(DefaultModelPath))

\* The feature dump was written and the ROC curve was not: the ROC step
\* failed.
RocStepFailed ==
    Exists(fs, DefaultFeatureDumpPath) /\ ~Exists(fs, RocCurvePath)

\* C30: the training program writes the model file and then the metrics
\* file only after fit() has succeeded: a failure in data loading
\* (including a missing label column) or in fit() leaves neither file
\* written, and a failure during the later ROC-curve step neither removes
\* the written artifacts nor stops the run.
C30_ArtifactsAfterFit ==
    TrainRan =>
        /\ (Exists(fs, DefaultModelPath) \/ MetricsWritten)
              => cli.fit.status = "ok"
        /\ cli.fit.status # "ok"
              => /\ cli.status = "error"
                 /\ fs = EmptyTree
        /\ cli.fit.status = "ok"
              => /\ fs[DefaultModelPath] = PipelineFile(cli.fitted)
                 /\ MetricsWritten
        /\ RocStepFailed
              => /\ cli.status = "ok"
                 /\ Exists(fs, DefaultModelPath)
                 /\ MetricsWritten

\* A run whose ROC step failed.
C30_Witness ==
    TrainRan /\ RocStepFailed /\ cli.fit.status = "ok"

\* A run stopped by load_data on a file without the label column.
C30_WitnessLoad ==
    TrainRan /\ cli.error = ErrMissingLabel /\ cli.fit.status = "none"

\* A run whose fit() raised.
C30_WitnessFit ==
    TrainRan /\ cli.fit.status = "error"

====
